---- MODULE Spec2Model ----
(***************************************************************************)
(* Ingestion pipeline of the PostgreSQL + MQTT external source:            *)
(* DataSource (src/src/source.ts), UpdateController                        *)
(* (src/src/controllers/update.ts) and RealTimeController                  *)
(* (src/src/mqtt.ts).                                                      *)
(*                                                                         *)
(* One step of the model is one run-to-completion turn of the Node.js      *)
(* event loop: the synchronous code from the event that resumes a handler  *)
(* or a worker (a request, a pg callback, the HTTP response of the         *)
(* platform, a timer, a semaphore permit) up to its next await.            *)
(***************************************************************************)
EXTENDS Integers, Sequences, FiniteSets, TLC

\* ------------------------------------------------------------------ bounds

\* HTTP push requests and MQTT messages the environment issues in one run.
MaxRequests == 2

\* Largest number of instances in the body of one push request.
MaxBatch == 3

\* HTTP notice requests the environment issues in one run.
MaxNotices == 1

\* The batch limit of the drain loop. source.ts:13 sets it to 100; the loop
\* only compares the length of the batch with it, and the model runs the loop
\* with a small limit so that queues longer than the limit are within reach
\* of the bounds above.
DEEPINT_UPDATE_INSTANCES_LIMIT == 2

\* Largest number of instances in the body of a push request of the
\* authorization runs (AuthSpec).
MaxAuthBatch == 1

\* Requests of any endpoint the environment issues in one authorization run.
MaxAuthRequests == 2

\* Nesting of the deepest filter of a read request.
MaxNesting == 6

\* Children of the widest node of a filter.
MaxWidth == 17

\* Length of the longest literal of a filter.
LongLength == 1025

\* Length of the longest literal of a LIKE pattern, and of the longest value
\* it is matched against.
MaxLiteral == 2

MaxValue == 3

\* Rows of the largest result set of a query.
MaxRows == 201

\* Runs of fn in one call of runUntilSuccess.
MaxRuns == 6

\* ----------------------------------------------------------- configuration

\* Config.tablesConfig as DataSource.constructor maps it into this.tables.
\* Keys are strings, written as their sequences of UTF-16 code units: "pk1",
\* "sk1", "pk2", "sk2".
tables ==
    << [table |-> "readings", publicKey |-> << 112, 107, 49 >>, secretKey |-> << 115, 107, 49 >>,
        topic |-> "mq/readings"],
       [table |-> "events", publicKey |-> << 112, 107, 50 >>, secretKey |-> << 115, 107, 50 >>,
        topic |-> "mq/events"] >>

Sources == 1 .. Len(tables)

Requests == 1 .. MaxRequests

\* An instance is named by the request that carried it and its position in
\* the body of that request.
Instances == Requests \X (1 .. MaxBatch)

\* "" + table at source.ts:225: the string form of an object.
ObjectToString(obj) == "[object Object]"

\* The relation named by the INSERT statement of pushInstance.
InsertRelation(s) == ObjectToString(tables[s])

\* The relation named by the SELECT statements (countInstances, query).
SourceRelation(s) == tables[s].table

Relations == {SourceRelation(s) : s \in Sources} \cup {InsertRelation(s) : s \in Sources}

Topics == {tables[s].topic : s \in Sources}

\* The source subscribed to a topic, 0 (null) when there is none.
getTableFromTopic(topic) ==
    IF \E s \in Sources : tables[s].topic = topic
    THEN CHOOSE s \in Sources :
             /\ tables[s].topic = topic
             /\ \A t \in Sources : tables[t].topic = topic => s <= t
    ELSE 0

\* ------------------------------------------------------------- credentials

\* The strings the keys of a configuration are drawn from in the
\* authorization runs: "\u00E9" and "undefined".
KeyStrings == { << 233 >>, << 117, 110, 100, 101, 102, 105, 110, 101, 100 >> }

\* A request without the header: request.headers[name] is undefined.
Missing == << -1 >>

\* The values of a key header: Node.js decodes header bytes as latin1.
\* "\u00E9" (the byte E9), "pq" (as many UTF-8 bytes as "\u00E9") and no
\* header at all.
HeaderValues == { << 233 >>, << 112, 113 >>, Missing }

\* header + "" in checkAuth.
HeaderString(h) ==
    IF h = Missing THEN << 117, 110, 100, 101, 102, 105, 110, 101, 100 >> ELSE h

\* The UTF-8 bytes of one code unit below the surrogates.
Utf8Unit(c) ==
    IF c < 128 THEN << c >>
    ELSE IF c < 2048 THEN << 192 + (c \div 64), 128 + (c % 64) >>
    ELSE << 224 + (c \div 4096), 128 + ((c \div 64) % 64), 128 + (c % 64) >>

\* Buffer.from(str, 'utf8').
RECURSIVE BufferFrom(_)
BufferFrom(str) ==
    IF str = << >> THEN << >> ELSE Utf8Unit(Head(str)) \o BufferFrom(Tail(str))

\* A comparison that looks at the lengths of the buffers only.
secureStringCompareLength(a, b) == Len(BufferFrom(a)) = Len(BufferFrom(b))

\* secureStringCompare: timingSafeEqual throws on buffers of different
\* lengths, which the catch turns into false.
secureStringCompare(a, b) ==
    LET x == BufferFrom(a)
        y == BufferFrom(b)
    IN IF Len(x) # Len(y) THEN FALSE ELSE \A i \in 1 .. Len(x) : x[i] = y[i]

\* A lookup that keeps the last table that matches.
getTableFromCredentialsLast(tbls, pubkey, secKey) ==
    LET match == {s \in DOMAIN tbls :
                     /\ secureStringCompare(pubkey, tbls[s].publicKey)
                     /\ secureStringCompare(secKey, tbls[s].secretKey)}
    IN IF match = {} THEN 0 ELSE CHOOSE s \in match : \A u \in match : u <= s

\* DataSource.getTableFromCredentials over this.tables: the first table both
\* of whose keys compare equal, 0 (null) when there is none.
getTableFromCredentials(tbls, pubkey, secKey) ==
    LET match == {s \in DOMAIN tbls :
                     /\ secureStringCompare(pubkey, tbls[s].publicKey)
                     /\ secureStringCompare(secKey, tbls[s].secretKey)}
    IN IF match = {} THEN 0 ELSE CHOOSE s \in match : \A u \in match : s <= u

\* The handlers that start with checkAuth.
UpdateEndpoints == {"push", "notice"}

ReadEndpoints == {"metadata", "query", "count", "nominal"}

\* A request as checkAuth left it: with the response the handler wrote before
\* its first await, status 0 when it has written none yet.
Handling(endpoint, pubKey, secretKey, status) ==
    [endpoint |-> endpoint, pubKey |-> pubKey, secretKey |-> secretKey,
     status |-> status, body |-> << >>]

\* ------------------------------------------------------------ JSON values

\* Strings are sequences of UTF-16 code units. A JSON value, or undefined, is
\* a record [t, v]: t its kind and v its content: << >> for undefined and
\* null, a boolean, a number as << numerator, denominator >>, a string, the
\* sequence of the elements of an array, or for an object the record of the
\* five properties sanitizeQueryTree reads (undefined where the object has
\* none).
Undefined == [t |-> "undefined", v |-> << >>]

Null == [t |-> "null", v |-> << >>]

Bool(b) == [t |-> "bool", v |-> b]

Num(n, d) == [t |-> "num", v |-> << n, d >>]

Str(s) == [t |-> "str", v |-> s]

Arr(elements) == [t |-> "arr", v |-> elements]

Obj(type, operation, left, right, children) ==
    [t |-> "obj", v |-> [type |-> type, operation |-> operation, left |-> left,
                         right |-> right, children |-> children]]

\* typeof value.
typeof(value) ==
    CASE value.t \in {"null", "arr", "obj"} -> "object"
      [] value.t = "num" -> "number"
      [] value.t = "str" -> "string"
      [] value.t = "bool" -> "boolean"
      [] OTHER -> "undefined"

\* value[key] for a value that is not null or undefined: the property of an
\* object, undefined for an array and for a primitive.
Get(value, key) == IF value.t = "obj" THEN value.v[key] ELSE Undefined


\* The strings of the code, named S_<text> (O_<text> for the operations).
S_undefined == << 117, 110, 100, 101, 102, 105, 110, 101, 100 >>

S_null == << 110, 117, 108, 108 >>

S_true == << 116, 114, 117, 101 >>

S_false == << 102, 97, 108, 115, 101 >>

S_object == << 91, 111, 98, 106, 101, 99, 116, 32, 79, 98, 106, 101, 99, 116, 93 >>

S_single == << 115, 105, 110, 103, 108, 101 >>

S_one == << 111, 110, 101 >>

S_anyof == << 97, 110, 121, 111, 102 >>

S_allof == << 97, 108, 108, 111, 102 >>

S_not == << 110, 111, 116 >>

O_eq == << 101, 113 >>

O_lt == << 108, 116 >>

O_le == << 108, 101 >>

O_lte == << 108, 116, 101 >>

O_gt == << 103, 116 >>

O_ge == << 103, 101 >>

O_gte == << 103, 116, 101 >>

O_cn == << 99, 110 >>

O_cni == << 99, 110, 105 >>

O_sw == << 115, 119 >>

O_swi == << 115, 119, 105 >>

O_ew == << 101, 119 >>

O_ewi == << 101, 119, 105 >>


\* The decimal digits of a natural number.
RECURSIVE Digits(_)
Digits(n) == IF n < 10 THEN << 48 + n >> ELSE Digits(n \div 10) \o << 48 + (n % 10) >>

\* "" + number, for the integers and the halves.
NumberToString(n, d) ==
    LET abs == IF n < 0 THEN 0 - n ELSE n
        sign == IF n < 0 THEN << 45 >> ELSE << >>
    IN IF abs % d = 0
       THEN (IF abs = 0 THEN << >> ELSE sign) \o Digits(abs \div d)
       ELSE sign \o Digits(abs \div d) \o << 46 >> \o Digits(((abs % d) * 10) \div d)

\* "" + value.
RECURSIVE StringOf(_)
StringOf(value) ==
    CASE value.t = "str" -> value.v
      [] value.t = "undefined" -> S_undefined
      [] value.t = "null" -> S_null
      [] value.t = "bool" -> IF value.v THEN S_true ELSE S_false
      [] value.t = "num" -> NumberToString(value.v[1], value.v[2])
      [] value.t = "obj" -> S_object
      [] value.t = "arr" ->
             LET RECURSIVE Join(_)
                 Join(i) ==
                     IF i > Len(value.v) THEN << >>
                     ELSE (IF i > 1 THEN << 44 >> ELSE << >>)
                          \o (IF value.v[i].t \in {"null", "undefined"} THEN << >>
                              ELSE StringOf(value.v[i]))
                          \o Join(i + 1)
             IN Join(1)

\* String.prototype.toLowerCase on the letters A to Z.
toLowerCase(str) == [i \in 1 .. Len(str) |-> IF str[i] \in 65 .. 90 THEN str[i] + 32 ELSE str[i]]

\* str.substr(0, length).
substr(str, length) == IF Len(str) > length THEN SubSeq(str, 1, length) ELSE str

\* Math.floor of the number n / d, d positive.
Floor(n, d) == n \div d


\* ---------------------------------------------------------- filter sanitizer

QUERY_TREE_MAX_DEPH == 4

\* A limit that no children list of the requests reaches.
EveryChild == MaxWidth

QUERY_TREE_MAX_CHILDREN == 16

\* The longest literal sanitizeQueryTree keeps.
MAX_RIGHT_LENGTH == 1024

NodeTypes == {S_single, S_one, S_anyof, S_allof, S_not}

Operations == {S_null, O_eq, O_lt, O_le, O_lte, O_gt, O_ge, O_gte, O_cn, O_cni,
               O_sw, O_swi, O_ew, O_ewi}

\* Every type taken for a composite one.
EveryType == NodeTypes

CompositeTypes == {S_anyof, S_allof, S_not}

\* What a call returns, or the exception it throws.
Returned(value) == [t |-> "return", v |-> value]

TypeError == [t |-> "throw", v |-> << >>]

\* The node sanitizeQueryTree starts from.
DefaultNode ==
    [type |-> S_anyof, operation |-> << >>, left |-> -1, right |-> Str(<< >>), children |-> << >>]

\* sanitizeQueryTree(tree, depth). typeof null is "object", and the read of
\* tree.type then throws a TypeError, which nothing in the function catches.
RECURSIVE sanitizeQueryTree(_, _)
sanitizeQueryTree(tree, depth) ==
    IF typeof(tree) # "object" THEN Returned(DefaultNode)
    ELSE IF tree.t = "null" THEN TypeError
    ELSE LET rawType == toLowerCase(StringOf(Get(tree, "type")))
             type == IF rawType \in NodeTypes THEN rawType ELSE S_anyof
             rawOperation == toLowerCase(StringOf(Get(tree, "operation")))
             operation == IF rawOperation \in Operations THEN rawOperation ELSE << >>
             rawLeft == Get(tree, "left")
             left == IF typeof(rawLeft) = "number" THEN Floor(rawLeft.v[1], rawLeft.v[2]) ELSE -1
             rawRight == Get(tree, "right")
             right == IF rawRight.t = "null" THEN Null
                      ELSE Str(substr(StringOf(rawRight), MAX_RIGHT_LENGTH))
             rawChildren == Get(tree, "children")
             count == IF depth < QUERY_TREE_MAX_DEPH /\ type \in CompositeTypes /\ rawChildren.t = "arr"
                      THEN IF Len(rawChildren.v) < QUERY_TREE_MAX_CHILDREN
                           THEN Len(rawChildren.v) ELSE QUERY_TREE_MAX_CHILDREN
                      ELSE 0
             results == [i \in 1 .. count |-> sanitizeQueryTree(rawChildren.v[i], depth + 1)]
         IN IF \E i \in 1 .. count : results[i].t = "throw"
            THEN TypeError
            ELSE Returned([type |-> type, operation |-> operation, left |-> left, right |-> right,
                           children |-> [i \in 1 .. count |-> results[i].v]])

\* DataSource.sanitizeFilter: null for a falsy value (undefined, null, false,
\* 0, the empty string), the sanitized tree otherwise.
sanitizeFilter(json) ==
    IF \/ json.t \in {"undefined", "null"}
       \/ json.t = "bool" /\ ~json.v
       \/ json.t = "num" /\ json.v[1] = 0
       \/ json.t = "str" /\ json.v = << >>
    THEN Returned(Null)
    ELSE sanitizeQueryTree(json, 0)

\* ------------------------------------------------------------ type coercion

\* Number(str) for the forms [-]digits and [-]digits.digit and for the empty
\* string (0); NaN for every other string. Returns << n, d >> or << >> (NaN).
IsDigits(str) == Len(str) > 0 /\ \A i \in 1 .. Len(str) : str[i] \in 48 .. 57

RECURSIVE DigitsValue(_)
DigitsValue(str) ==
    IF str = << >> THEN 0 ELSE DigitsValue(SubSeq(str, 1, Len(str) - 1)) * 10 + (str[Len(str)] - 48)

StringToNumber(str) ==
    LET negative == Len(str) > 0 /\ str[1] = 45
        body == IF negative THEN Tail(str) ELSE str
        sign == IF negative THEN -1 ELSE 1
    IN IF str = << >> THEN << 0, 1 >>
       ELSE IF IsDigits(body) THEN << sign * DigitsValue(body), 1 >>
       ELSE IF /\ Len(body) > 2
               /\ body[Len(body) - 1] = 46
               /\ IsDigits(SubSeq(body, 1, Len(body) - 2))
               /\ body[Len(body)] \in 48 .. 57
       THEN << sign * (DigitsValue(SubSeq(body, 1, Len(body) - 2)) * 10 + (body[Len(body)] - 48)), 10 >>
       ELSE << >>

\* Number(data).
ToNumber(data) ==
    CASE data.t = "num" -> data.v
      [] data.t = "bool" -> IF data.v THEN << 1, 1 >> ELSE << 0, 1 >>
      [] OTHER -> StringToNumber(StringOf(data))

\* A value that is never taken for true.
NeverTrue(data) == FALSE

\* !!data.
Truthy(data) ==
    CASE data.t = "bool" -> data.v
      [] data.t = "num" -> data.v[1] # 0
      [] data.t = "str" -> data.v # << >>
      [] data.t \in {"null", "undefined"} -> FALSE
      [] OTHER -> TRUE

\* The longest nominal value.
MAX_NOMINAL_LENGTH == 255

\* A Date with its time value: << 0, ms >> for a time known in milliseconds,
\* << 1 >> \o text for the time the date parser of the build reads from a text
\* outside the ISO format, << >> for an invalid date.
Date(time) == [t |-> "date", v |-> time]

MS_PER_DAY == 86400000

\* Date.parse for the ISO dates 1970-01-01 to 1970-01-24, for a text that is
\* a lone number (a date for the parser of the build) and for a text with no
\* number in it (no date).
DateParse(str) ==
    IF /\ Len(str) = 10
       /\ SubSeq(str, 1, 8) = << 49, 57, 55, 48, 45, 48, 49, 45 >>
       /\ IsDigits(SubSeq(str, 9, 10))
       /\ DigitsValue(SubSeq(str, 9, 10)) \in 1 .. 24
    THEN << 0, (DigitsValue(SubSeq(str, 9, 10)) - 1) * MS_PER_DAY >>
    ELSE IF IsDigits(str) THEN << 1 >> \o str
    ELSE << >>

\* new Date(data).
NewDate(data) ==
    CASE data.t = "date" -> data
      [] data.t = "num" ->
             LET n == data.v[1]
                 d == data.v[2]
             IN Date(<< 0, IF n >= 0 THEN n \div d ELSE 0 - ((0 - n) \div d) >>)
      [] data.t = "bool" -> Date(<< 0, IF data.v THEN 1 ELSE 0 >>)
      [] OTHER -> Date(DateParse(StringOf(data)))

\* turnInto(data, type). toISOString throws on an invalid date, and the date
\* of time 0 is returned in its place.
turnInto(data, type) ==
    IF data.t \in {"null", "undefined"} THEN Null
    ELSE CASE type = "nominal" -> Str(substr(StringOf(data), MAX_NOMINAL_LENGTH))
           [] type = "numeric" ->
                  LET n == ToNumber(data) IN IF n = << >> THEN Null ELSE Num(n[1], n[2])
           [] type = "logic" ->
                  IF data = Str(S_true) \/ data = Str(<< 49 >>) THEN Bool(TRUE)
                  ELSE IF data = Str(S_false) \/ data = Str(<< 48 >>) THEN Bool(FALSE)
                  ELSE Bool(Truthy(data))
           [] type = "date" ->
                  LET date == NewDate(data) IN IF date.v = << >> THEN Date(<< 0, 0 >>) ELSE date
           [] type = "text" -> Str(StringOf(data))

\* replaceWildcards: a backslash before every % and every _.
RECURSIVE replaceWildcards(_)
replaceWildcards(text) ==
    IF text = << >> THEN << >>
    ELSE (IF Head(text) \in {37, 95} THEN << 92, Head(text) >> ELSE << Head(text) >>)
         \o replaceWildcards(Tail(text))

\* ----------------------------------------------------------- filter compiler

\* The pieces of SQL text of toSQLCondition, named SQL_<piece>.
SQL_quote == << 34 >>

SQL_open == << 40 >>

SQL_close == << 41 >>

SQL_or == << 32, 79, 82, 32, 40 >>

SQL_and == << 32, 65, 78, 68, 32, 40 >>

SQL_not_open == << 78, 79, 84, 40, 32 >>

SQL_not_close == << 32, 41 >>

SQL_is_null == << 32, 73, 83, 32, 78, 85, 76, 76 >>

SQL_eq == << 32, 61, 32, 63 >>

SQL_lt == << 32, 60, 32, 63 >>

SQL_le == << 32, 60, 61, 32, 63 >>

SQL_gt == << 32, 62, 32, 63 >>

SQL_ge == << 32, 62, 61, 32, 63 >>

SQL_like == << 32, 76, 73, 75, 69, 32, 63 >>

SQL_lower_open == << 76, 79, 87, 69, 82, 40, 34 >>

SQL_lower_close == << 34, 41 >>

SQL_like_lower == << 32, 76, 73, 75, 69, 32, 76, 79, 87, 69, 82, 40, 63, 41 >>

\* The character of a placeholder: "?".
PLACEHOLDER == 63

PERCENT == << 37 >>

EmptyCondition == [sql |-> << >>, params |-> << >>]

\* A loop that does not skip the children with an empty condition.
RECURSIVE JoinEvery(_, _, _, _)
JoinEvery(subQs, separator, sql, params) ==
    IF subQs = << >> THEN [sql |-> sql, params |-> params]
    ELSE JoinEvery(Tail(subQs), separator,
                   IF sql = << >>
                   THEN SQL_open \o Head(subQs).sql \o SQL_close
                   ELSE sql \o separator \o Head(subQs).sql \o SQL_close,
                   params \o Head(subQs).params)

\* The loop of the anyof, allof and not cases over the conditions of the
\* children: the non-empty ones in parentheses, joined by the separator.
RECURSIVE JoinConditions(_, _, _, _)
JoinConditions(subQs, separator, sql, params) ==
    IF subQs = << >> THEN [sql |-> sql, params |-> params]
    ELSE LET subQ == Head(subQs) IN
         IF subQ.sql # << >>
         THEN JoinConditions(Tail(subQs), separator,
                             IF sql = << >>
                             THEN SQL_open \o subQ.sql \o SQL_close
                             ELSE sql \o separator \o subQ.sql \o SQL_close,
                             params \o subQ.params)
         ELSE JoinConditions(Tail(subQs), separator, sql, params)

\* A tree, as opposed to the null filter.
IsTree(query) == "type" \in DOMAIN query

\* The condition of a leaf: the default case of the switch on query.type.
LeafCondition(features, query) ==
    IF query.operation # S_null /\ query.right = Null THEN EmptyCondition
    ELSE IF query.left < 0 \/ query.left >= Len(features) THEN EmptyCondition
    ELSE LET feature == features[query.left + 1]
             cmp == turnInto(query.right, feature.type)
             name == SQL_quote \o feature.name \o SQL_quote
             lower == SQL_lower_open \o feature.name \o SQL_lower_close
             escaped == replaceWildcards(StringOf(cmp))
             operation == query.operation
         IN CASE operation = S_null -> [sql |-> name \o SQL_is_null, params |-> << >>]
              [] operation = O_eq -> [sql |-> name \o SQL_eq, params |-> << cmp >>]
              [] operation = O_lt -> [sql |-> name \o SQL_lt, params |-> << cmp >>]
              [] operation \in {O_le, O_lte} -> [sql |-> name \o SQL_le, params |-> << cmp >>]
              [] operation = O_gt -> [sql |-> name \o SQL_gt, params |-> << cmp >>]
              [] operation \in {O_ge, O_gte} -> [sql |-> name \o SQL_ge, params |-> << cmp >>]
              [] operation = O_cn ->
                     [sql |-> name \o SQL_like, params |-> << Str(PERCENT \o escaped \o PERCENT) >>]
              [] operation = O_cni ->
                     [sql |-> lower \o SQL_like_lower, params |-> << Str(PERCENT \o escaped \o PERCENT) >>]
              [] operation = O_sw ->
                     [sql |-> name \o SQL_like, params |-> << Str(escaped \o PERCENT) >>]
              [] operation = O_swi ->
                     [sql |-> lower \o SQL_like_lower, params |-> << Str(escaped \o PERCENT) >>]
              [] operation = O_ew ->
                     [sql |-> name \o SQL_like, params |-> << Str(PERCENT \o escaped) >>]
              [] operation = O_ewi ->
                     [sql |-> lower \o SQL_like_lower, params |-> << Str(PERCENT \o escaped) >>]
              [] OTHER -> EmptyCondition

\* toSQLCondition(features, query).
RECURSIVE toSQLCondition(_, _)
toSQLCondition(features, query) ==
    IF ~IsTree(query) THEN EmptyCondition
    ELSE LET subQs == [i \in 1 .. Len(query.children) |-> toSQLCondition(features, query.children[i])]
         IN CASE query.type = S_anyof -> JoinConditions(subQs, SQL_or, << >>, << >>)
              [] query.type = S_allof -> JoinConditions(subQs, SQL_and, << >>, << >>)
              [] query.type = S_not ->
                     LET joined == JoinConditions(subQs, SQL_or, << >>, << >>)
                     IN [sql |-> IF joined.sql # << >>
                                 THEN SQL_not_open \o joined.sql \o SQL_not_close
                                 ELSE << >>,
                         params |-> joined.params]
              [] OTHER -> LeafCondition(features, query)

\* ------------------------------------------------------------------- state

VARIABLES
    updateQueue,      \* table.updateQueue, per source
    requiredUpdate,   \* table.requiredUpdate, per source
    updateSem,        \* permits stored in table.updateSem, per source
    wpc,              \* where the worker of each source is suspended
    instancesToPush,  \* the worker's local batch
    outstanding,      \* forward calls of each source that have not answered
    lastSent,         \* body of the latest forward call of each source
    firstSent,        \* body of the first forward call of the current cycle
    reqs,             \* push handlers (HTTP and MQTT)
    persisted,        \* rows of each relation of the database
    appended,         \* history: instances in the order they were appended
    forwarded,        \* history: acknowledged batches, concatenated
    noticePending,    \* history: a noticeUpdate no forward call has followed
    backlog,          \* history: instances the latest drain left in the queue
    retried,          \* history: the current forward call is a retry
    notices,          \* history: notice requests issued so far
    tableKeys,        \* publicKey and secretKey of each table of this.tables
    handled,          \* history of the authorization runs: requests and responses
    json,             \* the filter of a read request, as parsed from its body
    fields,           \* table.fields of the table of the request
    filter,           \* outcome of sanitizeFilter(json)
    cond,             \* outcome of toSQLCondition(fields, filter); the statement of getNominalValues
    call,             \* arguments of the call of a function under study
    result,           \* what the call has returned or thrown so far
    qpc,              \* where the run of DataSource.query is suspended
    promise,          \* the promise query returned: pending, resolved, rejected
    held,             \* pool connections the run of query holds
    cursor,           \* the cursor of the run: none, open, closed
    started,          \* the field lists onStart was called with, in order
    delivered,        \* the rows onRow was called with, in order
    reads,            \* history: rows returned by each cursor read
    guard             \* CrashGuard.runUntilSuccess: the call, its runs of fn, its promise

vars == << updateQueue, requiredUpdate, updateSem, wpc, instancesToPush,
           outstanding, lastSent, firstSent, reqs, persisted, appended,
           forwarded, noticePending, backlog, retried, notices, tableKeys,
           handled, json, fields, filter, cond, call, result, qpc, promise,
           held, cursor, started, delivered, reads, guard >>

filterVars == << json, fields, filter, cond >>

callVars == << call, result >>

streamVars == << qpc, promise, held, cursor, started, delivered, reads >>

queryVars == << filterVars, callVars, streamVars, guard >>

\* awake: the worker of the source was not waiting in acquire() when the
\* handler called noticeUpdate.
NoRequest == [st |-> "none", kind |-> "none", src |-> 0, n |-> 0, idx |-> 0, awake |-> FALSE]

\* runUntilSuccess has not been called. arg is its argument delay (0 when
\* it is left out), delay the delay tryFunc was given, outcomes the ends of
\* the runs of fn in order, active the runs of fn under way, armed the delay
\* of the pending timer (0: none), resolves the calls of resolve.
NoGuard ==
    [pc |-> "idle", arg |-> 0, delay |-> 0, outcomes |-> << >>, active |-> 0, armed |-> 0,
     resolves |-> 0, promise |-> "none"]

\* The state of the tables, the workers and the database at start.
Constructed ==
    /\ updateQueue = [s \in Sources |-> << >>]
    /\ requiredUpdate = [s \in Sources |-> FALSE]
    /\ updateSem = [s \in Sources |-> 0]
    /\ wpc = [s \in Sources |-> "acquire"]
    /\ instancesToPush = [s \in Sources |-> << >>]
    /\ outstanding = [s \in Sources |-> 0]
    /\ lastSent = [s \in Sources |-> << >>]
    /\ firstSent = [s \in Sources |-> << >>]
    /\ reqs = [r \in Requests |-> NoRequest]
    /\ persisted = [rel \in Relations |-> {}]
    /\ appended = [s \in Sources |-> << >>]
    /\ forwarded = [s \in Sources |-> << >>]
    /\ noticePending = [s \in Sources |-> FALSE]
    /\ backlog = [s \in Sources |-> 0]
    /\ retried = [s \in Sources |-> FALSE]
    /\ notices = 0
    /\ handled = << >>
    /\ guard = NoGuard

\* No read request is being answered.
NotRun == [t |-> "none", v |-> << >>]

NoFilter ==
    /\ json = Undefined
    /\ filter = NotRun
    /\ cond = NotRun

NoCall ==
    /\ call = NotRun
    /\ result = NotRun

\* query has not been called.
NoStream ==
    /\ qpc = "idle"
    /\ promise = "none"
    /\ held = 0
    /\ cursor = "none"
    /\ started = << >>
    /\ delivered = << >>
    /\ reads = << >>

NoQuery ==
    /\ NoFilter
    /\ fields = << >>
    /\ NoCall
    /\ NoStream

Init ==
    /\ Constructed
    /\ NoQuery
    /\ tableKeys = [s \in Sources |-> [publicKey |-> tables[s].publicKey,
                                        secretKey |-> tables[s].secretKey]]

\* ----------------------------------------------------------------- helpers

\* The instances of the body of request r, as sanitizeInstances returns them:
\* one instance per element of the body, in the order of the body.
InstancesOf(r) == [k \in 1 .. reqs[r].n |-> << r, k >>]

\* noticeUpdate without the release of the permit.
noticeUpdateNoRelease(flag, permits) == << TRUE, permits >>

\* noticeUpdate releasing two permits.
noticeUpdateTwice(flag, permits) == << TRUE, permits + 2 >>

\* DataSource.noticeUpdate on the pair (requiredUpdate, permits) of a source.
noticeUpdate(flag, permits) == << TRUE, permits + 1 >>

\* A drain loop that takes from the end of the queue: pop() for shift().
RECURSIVE DrainPop(_, _)
DrainPop(batch, queue) ==
    IF Len(batch) < DEEPINT_UPDATE_INSTANCES_LIMIT /\ Len(queue) > 0
    THEN DrainPop(Append(batch, queue[Len(queue)]), SubSeq(queue, 1, Len(queue) - 1))
    ELSE << batch, queue >>

\* A drain loop that empties the queue once the batch is full.
RECURSIVE DrainClear(_, _)
DrainClear(batch, queue) ==
    IF Len(batch) < DEEPINT_UPDATE_INSTANCES_LIMIT /\ Len(queue) > 0
    THEN DrainClear(Append(batch, Head(queue)), Tail(queue))
    ELSE << batch, << >> >>

\* A drain loop without the bound on the batch.
RECURSIVE DrainAll(_, _)
DrainAll(batch, queue) ==
    IF Len(queue) > 0
    THEN DrainAll(Append(batch, Head(queue)), Tail(queue))
    ELSE << batch, queue >>

\* The drain loop of runUpdateServiceTable: shift() the queue into the batch
\* while the batch is below the limit and the queue is not empty.
RECURSIVE Drain(_, _)
Drain(batch, queue) ==
    IF Len(batch) < DEEPINT_UPDATE_INSTANCES_LIMIT /\ Len(queue) > 0
    THEN Drain(Append(batch, Head(queue)), Tail(queue))
    ELSE << batch, queue >>

\* A retry that drains the queue again into the batch it sends.
RetryBatchRedrain(s) == instancesToPush[s] \o updateQueue[s]

\* The body a retry of the cycle sends: the local instancesToPush, which the
\* retry loop never reassigns.
RetryBatch(s) == instancesToPush[s]

\* A worker that does not await the forward call.
AfterSendNoAwait == "acquire"

\* The worker awaits the forward call it has just issued.
AfterSend == "sending"

\* ----------------------------------------------------- handlers: inbound

\* POST /update/push for source s with n instances in the body (checkAuth
\* succeeded). The handler sanitizes the body and runs pushInstances up to its
\* first await: the INSERT of the first instance. With an empty body the loop
\* ends at once, noticeUpdate runs and 200 is answered.
PushRequest(r, s, n) ==
    /\ reqs[r].st = "none"
    /\ \A q \in Requests : q < r => reqs[q].st # "none"
    /\ IF n = 0
       THEN LET nu == noticeUpdate(requiredUpdate[s], updateSem[s]) IN
            /\ reqs' = [reqs EXCEPT ![r] = [st |-> "ok", kind |-> "http", src |-> s, n |-> 0, idx |-> 0,
                                            awake |-> wpc[s] # "acquire"]]
            /\ requiredUpdate' = [requiredUpdate EXCEPT ![s] = nu[1]]
            /\ updateSem' = [updateSem EXCEPT ![s] = nu[2]]
            /\ noticePending' = [noticePending EXCEPT ![s] = TRUE]
       ELSE /\ reqs' = [reqs EXCEPT ![r] = [st |-> "insert", kind |-> "http", src |-> s, n |-> n, idx |-> 1,
                                            awake |-> FALSE]]
            /\ UNCHANGED << requiredUpdate, updateSem, noticePending >>
    /\ UNCHANGED << updateQueue, wpc, instancesToPush, outstanding, lastSent,
                    firstSent, persisted, appended, forwarded >>
    /\ UNCHANGED << backlog, retried, notices, tableKeys, queryVars >>

\* A handler that takes a message of a topic of no source for a message of
\* the first source.
MqttMessageAnyTopic(r, topic, validJson) ==
    /\ reqs[r].st = "none"
    /\ \A q \in Requests : q < r => reqs[q].st # "none"
    /\ IF ~validJson
       THEN reqs' = [reqs EXCEPT ![r] = [st |-> "dropped", kind |-> "mqtt", src |-> 0, n |-> 0, idx |-> 0,
                                       awake |-> FALSE]]
       ELSE reqs' = [reqs EXCEPT ![r] = [st |-> "insert", kind |-> "mqtt", src |-> 1, n |-> 1, idx |-> 1,
                                       awake |-> FALSE]]
    /\ UNCHANGED << updateQueue, requiredUpdate, updateSem, wpc, instancesToPush,
                    outstanding, lastSent, firstSent, persisted, appended,
                    forwarded, noticePending, backlog, retried, notices, tableKeys, queryVars,
                    handled >>

\* RealTimeController.onMessage: a message on a topic. Invalid JSON and a topic
\* of no source are dropped; otherwise pushInstances runs with the one
\* instance of the message, up to the INSERT.
MqttMessage(r, topic, validJson) ==
    /\ reqs[r].st = "none"
    /\ \A q \in Requests : q < r => reqs[q].st # "none"
    /\ LET table == getTableFromTopic(topic) IN
       IF ~validJson \/ table = 0
       THEN reqs' = [reqs EXCEPT ![r] = [st |-> "dropped", kind |-> "mqtt", src |-> 0, n |-> 0, idx |-> 0,
                                       awake |-> FALSE]]
       ELSE reqs' = [reqs EXCEPT ![r] = [st |-> "insert", kind |-> "mqtt", src |-> table, n |-> 1, idx |-> 1,
                                       awake |-> FALSE]]
    /\ UNCHANGED << updateQueue, requiredUpdate, updateSem, wpc, instancesToPush,
                    outstanding, lastSent, firstSent, persisted, appended,
                    forwarded, noticePending, backlog, retried, notices, tableKeys, queryVars,
                    handled >>

\* An INSERT callback that runs only while the worker of the source waits
\* in acquire().
InsertOkWhenIdle(r) ==
    /\ reqs[r].st = "insert"
    /\ wpc[reqs[r].src] = "acquire"
    /\ LET s == reqs[r].src
           inst == InstancesOf(r)[reqs[r].idx]
           last == reqs[r].idx = reqs[r].n
           nu == noticeUpdate(requiredUpdate[s], updateSem[s])
       IN /\ persisted' = [persisted EXCEPT ![InsertRelation(s)] = @ \cup {inst}]
          /\ updateQueue' = [updateQueue EXCEPT ![s] = Append(@, inst)]
          /\ appended' = [appended EXCEPT ![s] = Append(@, inst)]
          /\ IF ~last
             THEN /\ reqs' = [reqs EXCEPT ![r].idx = @ + 1]
                  /\ UNCHANGED << requiredUpdate, updateSem, noticePending >>
             ELSE /\ reqs' = [reqs EXCEPT ![r].st = "ok",
                                           ![r].awake = reqs[r].kind = "http" /\ wpc[s] # "acquire"]
                  /\ IF reqs[r].kind = "http"
                     THEN /\ requiredUpdate' = [requiredUpdate EXCEPT ![s] = nu[1]]
                          /\ updateSem' = [updateSem EXCEPT ![s] = nu[2]]
                          /\ noticePending' = [noticePending EXCEPT ![s] = TRUE]
                     ELSE UNCHANGED << requiredUpdate, updateSem, noticePending >>
    /\ UNCHANGED << wpc, instancesToPush, outstanding, lastSent, firstSent, forwarded >>
    /\ UNCHANGED << backlog, retried, notices, tableKeys, queryVars, handled >>

\* The pg callback of pushInstance without error: the row is in the relation
\* the statement names, the instance is appended to the queue, and
\* pushInstances goes on: to the INSERT of the next instance or, after the
\* last one, back to its caller. The HTTP handler then calls noticeUpdate and
\* answers 200; onMessage just returns.
InsertOk(r) ==
    /\ reqs[r].st = "insert"
    /\ LET s == reqs[r].src
           inst == InstancesOf(r)[reqs[r].idx]
           last == reqs[r].idx = reqs[r].n
           nu == noticeUpdate(requiredUpdate[s], updateSem[s])
       IN /\ persisted' = [persisted EXCEPT ![InsertRelation(s)] = @ \cup {inst}]
          /\ updateQueue' = [updateQueue EXCEPT ![s] = Append(@, inst)]
          /\ appended' = [appended EXCEPT ![s] = Append(@, inst)]
          /\ IF ~last
             THEN /\ reqs' = [reqs EXCEPT ![r].idx = @ + 1]
                  /\ UNCHANGED << requiredUpdate, updateSem, noticePending >>
             ELSE /\ reqs' = [reqs EXCEPT ![r].st = "ok",
                                           ![r].awake = reqs[r].kind = "http" /\ wpc[s] # "acquire"]
                  /\ IF reqs[r].kind = "http"
                     THEN /\ requiredUpdate' = [requiredUpdate EXCEPT ![s] = nu[1]]
                          /\ updateSem' = [updateSem EXCEPT ![s] = nu[2]]
                          /\ noticePending' = [noticePending EXCEPT ![s] = TRUE]
                     ELSE UNCHANGED << requiredUpdate, updateSem, noticePending >>
    /\ UNCHANGED << wpc, instancesToPush, outstanding, lastSent, firstSent, forwarded >>
    /\ UNCHANGED << backlog, retried, notices, tableKeys, queryVars, handled >>

\* The pg callback of pushInstance with an error: pushInstance rejects,
\* pushInstances rejects, and so does the handler: nothing after the await of
\* pushInstances runs.
InsertFail(r) ==
    /\ reqs[r].st = "insert"
    /\ reqs' = [reqs EXCEPT ![r].st = "fail"]
    /\ UNCHANGED << updateQueue, requiredUpdate, updateSem, wpc, instancesToPush,
                    outstanding, lastSent, firstSent, persisted, appended,
                    forwarded, noticePending, backlog, retried, notices, tableKeys, queryVars,
                    handled >>

\* A notice that sets the flag and releases a permit of every source.
NoticeEverySource(s) ==
    /\ notices < MaxNotices
    /\ notices' = notices + 1
    /\ requiredUpdate' = [u \in Sources |-> TRUE]
    /\ updateSem' = [u \in Sources |-> updateSem[u] + 1]
    /\ noticePending' = [noticePending EXCEPT ![s] = TRUE]
    /\ UNCHANGED << updateQueue, wpc, instancesToPush, outstanding, lastSent,
                    firstSent, reqs, persisted, appended, forwarded, backlog,
                    retried, tableKeys, queryVars >>

\* POST /update/notice for source s (checkAuth succeeded).
NoticeRequest(s) ==
    /\ notices < MaxNotices
    /\ notices' = notices + 1
    /\ UNCHANGED << backlog, retried, tableKeys, queryVars >>
    /\ LET nu == noticeUpdate(requiredUpdate[s], updateSem[s]) IN
       /\ requiredUpdate' = [requiredUpdate EXCEPT ![s] = nu[1]]
       /\ updateSem' = [updateSem EXCEPT ![s] = nu[2]]
    /\ noticePending' = [noticePending EXCEPT ![s] = TRUE]
    /\ UNCHANGED << updateQueue, wpc, instancesToPush, outstanding, lastSent,
                    firstSent, reqs, persisted, appended, forwarded >>

\* ------------------------------------------------------ the worker of s

\* acquire() returns and there is nothing to do: continue, back to acquire().
WorkerSkip(s) ==
    /\ wpc[s] = "acquire"
    /\ updateSem[s] >= 1
    /\ ~requiredUpdate[s] /\ Len(updateQueue[s]) = 0
    /\ updateSem' = [updateSem EXCEPT ![s] = @ - 1]
    /\ UNCHANGED << updateQueue, requiredUpdate, wpc, instancesToPush, outstanding,
                    lastSent, firstSent, reqs, persisted, appended, forwarded,
                    noticePending >>
    /\ UNCHANGED << backlog, retried, notices, tableKeys, queryVars, handled >>

\* A worker that starts a cycle on every permit, whatever the flag and the
\* queue.
WorkerDrainIdle(s) ==
    /\ wpc[s] = "acquire"
    /\ updateSem[s] >= 1
    /\ LET d == Drain(<< >>, updateQueue[s]) IN
       /\ updateSem' = [updateSem EXCEPT ![s] = @ - 1]
       /\ instancesToPush' = [instancesToPush EXCEPT ![s] = d[1]]
       /\ updateQueue' = [updateQueue EXCEPT ![s] = d[2]]
       /\ requiredUpdate' = [requiredUpdate EXCEPT ![s] = FALSE]
       /\ outstanding' = [outstanding EXCEPT ![s] = @ + 1]
       /\ lastSent' = [lastSent EXCEPT ![s] = d[1]]
       /\ firstSent' = [firstSent EXCEPT ![s] = d[1]]
       /\ backlog' = [backlog EXCEPT ![s] = Len(d[2])]
    /\ wpc' = [wpc EXCEPT ![s] = AfterSend]
    /\ noticePending' = [noticePending EXCEPT ![s] = FALSE]
    /\ UNCHANGED << reqs, persisted, appended, forwarded >>
    /\ retried' = [retried EXCEPT ![s] = FALSE]
    /\ UNCHANGED << notices, tableKeys, queryVars, handled >>

\* acquire() returns and there is work: drain the queue into the batch, clear
\* requiredUpdate and issue the first forward call of the cycle.
WorkerDrain(s) ==
    /\ wpc[s] = "acquire"
    /\ updateSem[s] >= 1
    /\ ~(~requiredUpdate[s] /\ Len(updateQueue[s]) = 0)
    /\ LET d == Drain(<< >>, updateQueue[s]) IN
       /\ updateSem' = [updateSem EXCEPT ![s] = @ - 1]
       /\ instancesToPush' = [instancesToPush EXCEPT ![s] = d[1]]
       /\ updateQueue' = [updateQueue EXCEPT ![s] = d[2]]
       /\ requiredUpdate' = [requiredUpdate EXCEPT ![s] = FALSE]
       /\ outstanding' = [outstanding EXCEPT ![s] = @ + 1]
       /\ lastSent' = [lastSent EXCEPT ![s] = d[1]]
       /\ firstSent' = [firstSent EXCEPT ![s] = d[1]]
       /\ backlog' = [backlog EXCEPT ![s] = Len(d[2])]
    /\ wpc' = [wpc EXCEPT ![s] = AfterSend]
    /\ noticePending' = [noticePending EXCEPT ![s] = FALSE]
    /\ UNCHANGED << reqs, persisted, appended, forwarded >>
    /\ retried' = [retried EXCEPT ![s] = FALSE]
    /\ UNCHANGED << notices, tableKeys, queryVars, handled >>

\* An acknowledgement that clears requiredUpdate.
ForwardOkClears(s) ==
    /\ wpc[s] = "sending"
    /\ wpc' = [wpc EXCEPT ![s] = "acquire"]
    /\ outstanding' = [outstanding EXCEPT ![s] = @ - 1]
    /\ forwarded' = [forwarded EXCEPT ![s] = @ \o lastSent[s]]
    /\ instancesToPush' = [instancesToPush EXCEPT ![s] = << >>]
    /\ lastSent' = [lastSent EXCEPT ![s] = << >>]
    /\ firstSent' = [firstSent EXCEPT ![s] = << >>]
    /\ requiredUpdate' = [requiredUpdate EXCEPT ![s] = FALSE]
    /\ UNCHANGED << updateQueue, updateSem, reqs, persisted, appended, noticePending >>
    /\ retried' = [retried EXCEPT ![s] = FALSE]
    /\ UNCHANGED << backlog, notices, tableKeys, queryVars, handled >>

\* The platform answers 200: done, and the worker is back at acquire().
ForwardOk(s) ==
    /\ wpc[s] = "sending"
    /\ wpc' = [wpc EXCEPT ![s] = "acquire"]
    /\ outstanding' = [outstanding EXCEPT ![s] = @ - 1]
    /\ forwarded' = [forwarded EXCEPT ![s] = @ \o lastSent[s]]
    /\ instancesToPush' = [instancesToPush EXCEPT ![s] = << >>]
    /\ lastSent' = [lastSent EXCEPT ![s] = << >>]
    /\ firstSent' = [firstSent EXCEPT ![s] = << >>]
    /\ UNCHANGED << updateQueue, requiredUpdate, updateSem, reqs, persisted,
                    appended, noticePending >>
    /\ retried' = [retried EXCEPT ![s] = FALSE]
    /\ UNCHANGED << backlog, notices, tableKeys, queryVars, handled >>

\* A transport error or a status other than 200: the error is logged and the
\* worker starts the 5 s timer.
ForwardFail(s) ==
    /\ wpc[s] = "sending"
    /\ wpc' = [wpc EXCEPT ![s] = "backoff"]
    /\ outstanding' = [outstanding EXCEPT ![s] = @ - 1]
    /\ UNCHANGED << updateQueue, requiredUpdate, updateSem, instancesToPush,
                    lastSent, firstSent, reqs, persisted, appended, forwarded,
                    noticePending >>
    /\ UNCHANGED << backlog, retried, notices, tableKeys, queryVars, handled >>

\* The timer fires: the next forward call of the cycle.
BackoffElapsed(s) ==
    /\ wpc[s] = "backoff"
    /\ wpc' = [wpc EXCEPT ![s] = AfterSend]
    /\ outstanding' = [outstanding EXCEPT ![s] = @ + 1]
    /\ lastSent' = [lastSent EXCEPT ![s] = RetryBatch(s)]
    /\ noticePending' = [noticePending EXCEPT ![s] = FALSE]
    /\ UNCHANGED << updateQueue, requiredUpdate, updateSem, instancesToPush,
                    firstSent, reqs, persisted, appended, forwarded >>
    /\ retried' = [retried EXCEPT ![s] = TRUE]
    /\ UNCHANGED << backlog, notices, tableKeys, queryVars, handled >>

\* ------------------------------------------------------------ specification

Next ==
    \/ \E r \in Requests, s \in Sources, n \in 0 .. MaxBatch :
           PushRequest(r, s, n) /\ UNCHANGED handled
    \/ \E r \in Requests, topic \in Topics \cup {"mq/other"}, validJson \in BOOLEAN :
           MqttMessage(r, topic, validJson)
    \/ \E r \in Requests : InsertOk(r)
    \/ \E r \in Requests : InsertFail(r)
    \/ \E s \in Sources : NoticeRequest(s) /\ UNCHANGED handled
    \/ \E s \in Sources : WorkerSkip(s)
    \/ \E s \in Sources : WorkerDrain(s)
    \/ \E s \in Sources : ForwardOk(s)
    \/ \E s \in Sources : ForwardFail(s)
    \/ \E s \in Sources : BackoffElapsed(s)

Spec == Init /\ [][Next]_vars

\* The database answers every INSERT; nothing is assumed of the workers or
\* of the platform, which may fail every forward call for ever.
InsertFairness == \A r \in Requests : WF_vars(InsertOk(r) \/ InsertFail(r))

PushSpec == Init /\ [][Next]_vars /\ InsertFairness

\* The event loop runs every continuation that is ready (the worker after a
\* permit, the timer), the database answers every INSERT, and the platform
\* eventually answers 200. Requests, messages and notices may stop coming.
Fairness ==
    /\ \A s \in Sources :
           /\ WF_vars(WorkerSkip(s))
           /\ WF_vars(WorkerDrain(s))
           /\ WF_vars(BackoffElapsed(s))
           /\ SF_vars(ForwardOk(s))
    /\ \A r \in Requests : WF_vars(InsertOk(r) \/ InsertFail(r))

FairSpec == Init /\ [][Next]_vars /\ Fairness

\* The event loop and the database alone: every continuation that is ready
\* runs, every INSERT and every forward call is answered, but the platform
\* need never answer 200.
LoopFairness ==
    /\ \A s \in Sources :
           /\ WF_vars(WorkerSkip(s))
           /\ WF_vars(WorkerDrain(s))
           /\ WF_vars(BackoffElapsed(s))
           /\ WF_vars(ForwardOk(s) \/ ForwardFail(s))
    /\ \A r \in Requests : WF_vars(InsertOk(r) \/ InsertFail(r))

RetrySpec == Init /\ [][Next]_vars /\ LoopFairness

\* ------------------------------------------------------------ authorization

\* What the handlers, the workers and the database hold: everything but the
\* configured keys and the response of a stopped handler.
ingestVars == << updateQueue, requiredUpdate, updateSem, wpc, instancesToPush,
                 outstanding, lastSent, firstSent, reqs, persisted, appended,
                 forwarded, noticePending, backlog, retried, notices >>

\* Controller.checkAuth: the table of the two key headers of the request.
checkAuth(pubKey, secretKey) ==
    getTableFromCredentials(tableKeys, HeaderString(pubKey), HeaderString(secretKey))

\* The first lines of every handler when checkAuth returns null:
\* response.status(401); response.end(); return.
Deny(endpoint, pubKey, secretKey) ==
    /\ handled' = Append(handled, Handling(endpoint, pubKey, secretKey, 401))
    /\ UNCHANGED << ingestVars, tableKeys, queryVars >>

\* UpdateController.pushInstances with any key headers; with an empty body
\* 200 is answered before any await.
AuthPush(r, pubKey, secretKey, n) ==
    /\ Len(handled) < MaxAuthRequests
    /\ LET table == checkAuth(pubKey, secretKey) IN
       IF table = 0
       THEN Deny("push", pubKey, secretKey)
       ELSE /\ PushRequest(r, table, n)
            /\ handled' = Append(handled, Handling("push", pubKey, secretKey,
                                                   IF n = 0 THEN 200 ELSE 0))

\* UpdateController.noticeUpdate with any key headers.
AuthNotice(pubKey, secretKey) ==
    /\ Len(handled) < MaxAuthRequests
    /\ LET table == checkAuth(pubKey, secretKey) IN
       IF table = 0
       THEN Deny("notice", pubKey, secretKey)
       ELSE /\ NoticeRequest(table)
            /\ handled' = Append(handled, Handling("notice", pubKey, secretKey, 200))

\* The handlers of StatusController with any key headers: with a table they
\* go on to read the configuration and the database, and change nothing of
\* the ingestion.
AuthRead(endpoint, pubKey, secretKey) ==
    /\ Len(handled) < MaxAuthRequests
    /\ LET table == checkAuth(pubKey, secretKey) IN
       IF table = 0
       THEN Deny(endpoint, pubKey, secretKey)
       ELSE /\ handled' = Append(handled, Handling(endpoint, pubKey, secretKey, 0))
            /\ UNCHANGED << ingestVars, tableKeys, queryVars >>

\* Any configuration of the keys of the tables.
AuthInit ==
    /\ Constructed
    /\ NoQuery
    /\ tableKeys \in [Sources -> [publicKey : KeyStrings, secretKey : KeyStrings]]

AuthNext ==
    \/ \E r \in Requests, pubKey \in HeaderValues, secretKey \in HeaderValues, n \in 0 .. MaxAuthBatch :
           AuthPush(r, pubKey, secretKey, n)
    \/ \E pubKey \in HeaderValues, secretKey \in HeaderValues : AuthNotice(pubKey, secretKey)
    \/ \E endpoint \in ReadEndpoints, pubKey \in HeaderValues, secretKey \in HeaderValues :
           AuthRead(endpoint, pubKey, secretKey)
    \/ \E r \in Requests : InsertOk(r)
    \/ \E r \in Requests : InsertFail(r)

AuthSpec == AuthInit /\ [][AuthNext]_vars

\* ------------------------------------------------------------ read requests

\* Field lists of a table: the fields after the constructor of DataSource
\* (index, name, lower-case type). The names are a, b and b?.
FieldLists ==
    { << >>,
      << [index |-> 0, name |-> << 97 >>, type |-> "numeric"],
         [index |-> 1, name |-> << 98 >>, type |-> "nominal"] >>,
      << [index |-> 0, name |-> << 97 >>, type |-> "text"],
         [index |-> 1, name |-> << 98 >>, type |-> "logic"] >>,
      << [index |-> 0, name |-> << 98, 63 >>, type |-> "nominal"] >> }

\* A string longer than the longest literal.
LongString == [i \in 1 .. LongLength |-> 120]

\* Values a request puts in the place of a node's type: single, ONE, anyOf,
\* ALLOF, not, ["not"], bogus, a number, nothing.
RawTypes ==
    { Str(S_single), Str(<< 79, 78, 69 >>), Str(<< 97, 110, 121, 79, 102 >>), Str(<< 65, 76, 76, 79, 70 >>), Str(S_not),
      Arr(<< Str(S_not) >>), Str(<< 98, 111, 103, 117, 115 >>), Num(1, 1), Undefined }

LeafTypes == { Str(S_single), Str(<< 79, 78, 69 >>), Str(<< 98, 111, 103, 117, 115 >>), Undefined }

\* Values in the place of the operation: each recognized one, EQ, Cni,
\* bogus, JSON null, nothing.
RawOperations ==
    { Str(op) : op \in Operations } \cup { Str(<< 69, 81 >>), Str(<< 67, 110, 105 >>), Str(<< 98, 111, 103, 117, 115 >>), Null, Undefined }

\* Values in the place of the field index: 0, 1, 2.5, 1.5, -1, 9, "0", nothing.
RawLefts ==
    { Num(0, 1), Num(1, 1), Num(5, 2), Num(3, 2), Num(-1, 1), Num(9, 1), Str(<< 48 >>), Undefined }

\* Values in the place of the literal: null, nothing, a%_b, 12, true, 7,
\* -2.5, false, x.
RawRights ==
    { Null, Undefined, Str(<< 97, 37, 95, 98 >>), Str(<< 49, 50 >>), Str(S_true), Num(7, 1), Num(-5, 2),
      Bool(FALSE), Str(<< 120 >>) }

RawLeaves ==
    { Obj(type, operation, left, right, Undefined) :
          type \in LeafTypes, operation \in RawOperations, left \in RawLefts, right \in RawRights }

RawNode(type, children) == Obj(type, Undefined, Undefined, Undefined, children)

\* The leaf "field i equals the text of i".
Numbered(i) == Obj(Str(S_single), Str(O_eq), Num(i, 1), Str(Digits(i)), Undefined)

\* Elements of the children lists: binding leaves, leaves that bind nothing
\* (empty operation, field index out of range, null literal), and values
\* that are not nodes.
BindingLeaves ==
    { Obj(Str(S_single), Str(O_eq), Num(0, 1), Str(<< 49, 50 >>), Undefined),
      Obj(Str(S_one), Str(O_cn), Num(1, 1), Str(<< 97, 37, 95, 98 >>), Undefined),
      Obj(Str(S_single), Str(S_null), Num(0, 1), Null, Undefined) }

NoOpLeaves ==
    { Obj(Str(S_single), Str(<< 98, 111, 103, 117, 115 >>), Num(0, 1), Str(<< 120 >>), Undefined),
      Obj(Str(S_single), Str(O_eq), Num(9, 1), Str(<< 120 >>), Undefined),
      Obj(Str(S_one), Str(O_lt), Num(0, 1), Null, Undefined) }

NotNodes == { Null, Num(3, 1), Str(<< 120 >>), Arr(<< Numbered(0) >>) }

Lists(S) == { << >> } \cup { << x >> : x \in S } \cup { << x, y >> : x \in S, y \in S }

CompositeRawTypes == { Str(S_anyof), Str(S_allof), Str(S_not) }

\* Nodes over lists of at most two elements, one level and two levels deep.
Level1 ==
    { RawNode(type, Arr(children)) :
          type \in CompositeRawTypes, children \in Lists(BindingLeaves \cup NoOpLeaves \cup NotNodes) }

Level2 ==
    { RawNode(type, Arr(<< x >>)) : type \in CompositeRawTypes, x \in Level1 }
    \cup { RawNode(type, Arr(<< x, y >>)) :
               type \in CompositeRawTypes,
               x \in { RawNode(t, Arr(<< l >>)) : t \in CompositeRawTypes, l \in NoOpLeaves \cup {Numbered(0)} },
               y \in { RawNode(Str(S_not), Arr(<< l >>)) : l \in NoOpLeaves \cup {Numbered(1)} } \cup {Numbered(1)} }

\* A chain of n nodes of one type over a bottom value.
RECURSIVE Chain(_, _, _)
Chain(type, n, bottom) ==
    IF n = 0 THEN bottom ELSE RawNode(type, Arr(<< Chain(type, n - 1, bottom), Numbered(n % 2) >>))

Chains ==
    { Chain(type, n, bottom) :
          type \in CompositeRawTypes, n \in 1 .. MaxNesting,
          bottom \in { Numbered(0), RawNode(Str(S_anyof), Arr(<< Numbered(1), Null >>)) } }

\* A node with n children, the i-th on field i - 1.
Wide(type, n) == RawNode(type, Arr([i \in 1 .. n |-> Numbered(i - 1)]))

Wides ==
    { Wide(type, n) : type \in RawTypes, n \in {1, QUERY_TREE_MAX_CHILDREN, MaxWidth} }
    \cup { RawNode(Str(S_allof), Arr(<< Wide(Str(S_anyof), MaxWidth), Numbered(1) >>)),
           RawNode(Str(S_allof),
                   Arr(<< Chain(Str(S_not), MaxNesting - 1, Numbered(0)), Wide(Str(S_anyof), MaxWidth) >>)) }

\* Nodes whose children are not a list, and leaves that carry children.
Odd ==
    { RawNode(type, children) :
          type \in RawTypes,
          children \in { Str(<< 120 >>), Numbered(0), Null, Arr(<< Numbered(0), Numbered(1) >>) } }
    \cup { Obj(Str(S_single), Str(O_eq), Num(0, 1), Str(LongString), Undefined),
           Obj(Str(S_single), Str(O_cn), Num(0, 1), Arr(<< Num(1, 1), Null, Str(<< 120 >>) >>), Undefined),
           Obj(Str(S_single), Str(O_eq), Num(0, 1), Numbered(0), Undefined),
           Obj(Str(<< 98, 111, 103, 117, 115 >>), Str(<< 98, 111, 103, 117, 115 >>), Num(0, 1), Str(<< 120 >>),
               Arr(<< Obj(Str(S_single), Str(<< 98, 111, 103, 117, 115 >>), Num(0, 1), Str(<< 120 >>), Arr(<< Numbered(0) >>)) >>)) }

RawScalars ==
    { Undefined, Null, Bool(FALSE), Bool(TRUE), Num(0, 1), Num(7, 1), Str(<< >>), Str(S_not),
      Arr(<< >>), Arr(<< Numbered(0) >>) }

\* The filters of the read requests.
RawFilters == RawScalars \cup RawLeaves \cup Level1 \cup Level2 \cup Chains \cup Wides \cup Odd

serverVars == << ingestVars, tableKeys, handled, guard >>

\* sanitizeFilter(json), at the start of a read handler.
Sanitize ==
    /\ filter = NotRun
    /\ filter' = sanitizeFilter(json)
    /\ UNCHANGED << json, fields, cond, serverVars, callVars, streamVars >>

\* toSQLCondition(table.fields, filter), in the query the handler goes on to
\* build when sanitizeFilter has returned.
Compile ==
    /\ filter.t = "return"
    /\ cond = NotRun
    /\ cond' = Returned(toSQLCondition(fields, filter.v))
    /\ UNCHANGED << json, fields, filter, serverVars, callVars, streamVars >>

\* The server as Init leaves it, with no request of the push and notice
\* endpoints on its way.
Quiet ==
    /\ Constructed
    /\ tableKeys = [s \in Sources |-> [publicKey |-> tables[s].publicKey,
                                        secretKey |-> tables[s].secretKey]]

FilterInit ==
    /\ Quiet
    /\ json \in RawFilters
    /\ fields \in FieldLists
    /\ filter = NotRun
    /\ cond = NotRun
    /\ NoCall
    /\ NoStream

FilterNext == Sanitize \/ Compile

FilterSpec == FilterInit /\ [][FilterNext]_vars

\* ------------------------------------------------------------ LIKE patterns

\* The characters of the literals and of the stored values: a, b, %, _ and
\* the backslash.
LikeAlphabet == {97, 98, 37, 95, 92}

StringsOver(alphabet, n) == UNION {[1 .. k -> alphabet] : k \in 0 .. n}

\* The escape character of LIKE when the statement names none.
ESCAPE == 92

\* value LIKE pattern in PostgreSQL: % stands for any text, _ for any one
\* character, and the escape character makes the character after it stand
\* for itself. A pattern that ends in the escape character matches nothing
\* here (see LikeError).
RECURSIVE Like(_, _)
Like(value, pattern) ==
    IF pattern = << >> THEN value = << >>
    ELSE IF Head(pattern) = 37
    THEN \E k \in 0 .. Len(value) : Like(SubSeq(value, k + 1, Len(value)), Tail(pattern))
    ELSE IF Head(pattern) = ESCAPE
    THEN /\ Len(pattern) > 1
         /\ value # << >>
         /\ Head(value) = pattern[2]
         /\ Like(Tail(value), Tail(Tail(pattern)))
    ELSE /\ value # << >>
         /\ Head(pattern) = 95 \/ Head(pattern) = Head(value)
         /\ Like(Tail(value), Tail(pattern))

\* The pattern ends in an escape character that escapes nothing: PostgreSQL
\* fails the statement when the matching gets to it.
RECURSIVE LikeError(_)
LikeError(pattern) ==
    IF pattern = << >> THEN FALSE
    ELSE IF Head(pattern) = ESCAPE
    THEN Len(pattern) = 1 \/ LikeError(Tail(Tail(pattern)))
    ELSE LikeError(Tail(pattern))

\* A table with one text field, a.
TextFields == << [index |-> 0, name |-> << 97 >>, type |-> "text"] >>

\* The leaf "field 0 <operation> literal", as the sanitizer returns it.
LikeLeaf(operation, literal) ==
    [type |-> S_single, operation |-> operation, left |-> 0, right |-> Str(literal),
     children |-> << >>]

\* The condition of the leaf is compiled and the database matches the value
\* of a row against the parameter of its LIKE.
MatchPattern ==
    /\ call.t = "like"
    /\ result = NotRun
    /\ LET pattern == toSQLCondition(TextFields, LikeLeaf(call.v.operation, call.v.literal)).params[1].v
       IN result' = Returned([pattern |-> pattern,
                              matched |-> Like(call.v.value, pattern),
                              failed |-> LikeError(pattern)])
    /\ UNCHANGED << call, serverVars, filterVars, streamVars >>

LikeInit ==
    /\ Quiet
    /\ NoFilter
    /\ fields = TextFields
    /\ NoStream
    /\ call \in { [t |-> "like", v |-> [operation |-> operation, literal |-> literal, value |-> value]] :
                      operation \in {O_cn, O_sw, O_ew},
                      literal \in StringsOver(LikeAlphabet, MaxLiteral),
                      value \in StringsOver(LikeAlphabet, MaxValue) }
    /\ result = NotRun

LikeNext == MatchPattern

LikeSpec == LikeInit /\ [][LikeNext]_vars

\* ----------------------------------------------------------------- coercion

FeatureTypes == {"nominal", "text", "numeric", "logic", "date"}

\* Values of a key of an instance, and of a column of a row: null, nothing,
\* the booleans, numbers, the texts "", 0, 1, true, false, 12, x, -2.5,
\* 1970-01-02 and a text longer than a nominal value, a list and an object.
RawValues ==
    { Null, Undefined, Bool(TRUE), Bool(FALSE),
      Num(0, 1), Num(1, 1), Num(7, 1), Num(-5, 2), Num(3, 2), Num(-3, 1),
      Str(<< >>), Str(<< 48 >>), Str(<< 49 >>), Str(S_true), Str(S_false), Str(<< 49, 50 >>),
      Str(<< 120 >>), Str(<< 45, 50, 46, 53 >>),
      Str(<< 49, 57, 55, 48, 45, 48, 49, 45, 48, 50 >>),
      Str([i \in 1 .. MAX_NOMINAL_LENGTH + 1 |-> 120]),
      Arr(<< >>), Arr(<< Num(5, 1) >>), Arr(<< Str(<< 120 >>), Null >>),
      Obj(Undefined, Undefined, Undefined, Undefined, Undefined) }

\* turnInto(x, T).
CoerceOnce ==
    /\ call.t = "coerce"
    /\ result = NotRun
    /\ result' = Returned([once |-> turnInto(call.v.x, call.v.type), twice |-> NotRun])
    /\ UNCHANGED << call, serverVars, filterVars, streamVars >>

\* turnInto of the value the first call returned, with the same T.
CoerceTwice ==
    /\ call.t = "coerce"
    /\ result.t = "return"
    /\ result.v.twice = NotRun
    /\ result' = Returned([once |-> result.v.once, twice |-> turnInto(result.v.once, call.v.type)])
    /\ UNCHANGED << call, serverVars, filterVars, streamVars >>

CoerceInit ==
    /\ Quiet
    /\ NoFilter
    /\ fields = << >>
    /\ NoStream
    /\ call \in { [t |-> "coerce", v |-> [x |-> x, type |-> type]] : x \in RawValues, type \in FeatureTypes }
    /\ result = NotRun

CoerceNext == CoerceOnce \/ CoerceTwice

CoerceSpec == CoerceInit /\ [][CoerceNext]_vars

\* -------------------------------------------------------------------- query

\* Rows a cursor read asks for.
CURSOR_READ_AMOUNT == 100

\* The parts of the projection of a request after parseInt: field indices,
\* indices of no field, a negative number, and NaN (written << >>).
ProjectionParts == { << 0 >>, << 1 >>, << 5 >>, << -1 >>, << >> }

Projections ==
    { << >>, << << 1 >> >>, << << 1 >>, << 0 >> >>, << << 0 >>, << 0 >> >>,
      << << 5 >>, << 1 >> >>, << << >>, << 0 >>, << -1 >> >>, << << 5 >> >> }

\* Sizes of result sets: none, one, and around one and two reads.
RowCounts ==
    { 0, 1, CURSOR_READ_AMOUNT - 1, CURSOR_READ_AMOUNT, CURSOR_READ_AMOUNT + 1,
      2 * CURSOR_READ_AMOUNT, MaxRows }

\* The parts that are numbers, not negative, and indices of a feature, in the
\* order of the list.
RECURSIVE SelectIndices(_, _)
SelectIndices(parts, features) ==
    IF parts = << >> THEN << >>
    ELSE LET a == Head(parts)
             keep == a # << >> /\ a[1] >= 0 /\ a[1] < Len(features)
         IN (IF keep THEN << a[1] >> ELSE << >>) \o SelectIndices(Tail(parts), features)

\* DataSource.sanitizeProjection, after the split and the parseInt: the
\* parts that are numbers, not negative, and indices of a field.
sanitizeProjection(features, parts) == SelectIndices(parts, features)

\* A query that hands the whole field list to onStart.
WholeFields(features, projection) == features

\* The features of a query: the fields of the projection, or all the fields
\* when the projection is empty.
ProjectedFeatures(features, projection) ==
    IF Len(projection) > 0
    THEN LET valid == SelectIndices([i \in 1 .. Len(projection) |-> << projection[i] >>], features)
         IN [i \in 1 .. Len(valid) |-> features[valid[i] + 1]]
    ELSE features

RECURSIVE Sum(_)
Sum(seq) == IF seq = << >> THEN 0 ELSE (IF Head(seq) > 0 THEN Head(seq) ELSE 0) + Sum(Tail(seq))

\* Rows the cursor has returned so far.
Fetched == Sum(reads)

\* A failed read in the history of reads.
READ_ERROR == -1

\* The handler calls query: the statement is built and pool.connect is
\* awaited.
QueryCall ==
    /\ call.t = "query"
    /\ qpc = "idle"
    /\ qpc' = "connect"
    /\ promise' = "pending"
    /\ UNCHANGED << held, cursor, started, delivered, reads, callVars, filterVars, serverVars >>

\* pool.connect rejects: query rejects.
ConnectFail ==
    /\ qpc = "connect"
    /\ qpc' = "done"
    /\ promise' = "rejected"
    /\ UNCHANGED << held, cursor, started, delivered, reads, callVars, filterVars, serverVars >>

\* pool.connect gives a client: the cursor is created, onStart is called with
\* the features and the first read is issued. When onStart throws, the
\* executor ends there: nothing settles the promise or closes the cursor.
ConnectOk(throws) ==
    /\ qpc = "connect"
    /\ held' = held + 1
    /\ cursor' = "open"
    /\ started' = Append(started, ProjectedFeatures(fields, call.v.projection))
    /\ qpc' = IF throws THEN "stuck" ELSE "read"
    /\ UNCHANGED << promise, delivered, reads, callVars, filterVars, serverVars >>

\* A read returns the next rows, at most CURSOR_READ_AMOUNT. onRow is called
\* with each of them and the next read is issued; when onRow throws on the
\* throwAt-th row of the read (0: on none) the executor ends there. An empty
\* read ends the loop: the promise is resolved and cursor.close is called.
ReadRows(throwAt) ==
    /\ qpc = "read"
    /\ LET left == call.v.rows - Fetched
           n == IF left < CURSOR_READ_AMOUNT THEN left ELSE CURSOR_READ_AMOUNT
           called == IF throwAt = 0 THEN n ELSE throwAt
       IN /\ throwAt <= n
          /\ reads' = Append(reads, n)
          /\ delivered' = delivered \o [i \in 1 .. called |-> Fetched + i]
          /\ IF n = 0
             THEN qpc' = "closing" /\ promise' = "resolved"
             ELSE qpc' = (IF throwAt = 0 THEN "read" ELSE "stuck") /\ UNCHANGED promise
    /\ UNCHANGED << held, cursor, started, callVars, filterVars, serverVars >>

\* A read calls back with an error: the rows of the read are taken to be
\* none, which ends the loop as an empty read does.
ReadError ==
    /\ qpc = "read"
    /\ reads' = Append(reads, READ_ERROR)
    /\ qpc' = "closing"
    /\ promise' = "resolved"
    /\ UNCHANGED << held, cursor, started, delivered, callVars, filterVars, serverVars >>

\* The callback of cursor.close: the client is released.
CursorClosed ==
    /\ qpc = "closing"
    /\ cursor' = "closed"
    /\ held' = held - 1
    /\ qpc' = "done"
    /\ UNCHANGED << promise, started, delivered, reads, callVars, filterVars, serverVars >>

QueryInit ==
    /\ Quiet
    /\ NoFilter
    /\ fields \in FieldLists
    /\ NoStream
    /\ \E parts \in Projections, rows \in RowCounts :
           call = [t |-> "query", v |-> [projection |-> sanitizeProjection(fields, parts), rows |-> rows]]
    /\ result = NotRun

QueryNext ==
    \/ QueryCall
    \/ ConnectFail
    \/ \E throws \in BOOLEAN : ConnectOk(throws)
    \/ \E throwAt \in 0 .. CURSOR_READ_AMOUNT : ReadRows(throwAt)
    \/ ReadError
    \/ CursorClosed

QuerySpec == QueryInit /\ [][QueryNext]_vars

\* -------------------------------------------------------- instances of a push

\* An object of the body of a push: its keys with their values, in the
\* order of the text.
Instance(pairs) == [t |-> "obj", v |-> pairs]

\* row[name]: the value of the key, undefined when the object has no such
\* key of its own, of a list, or of an object created without keys.
Lookup(row, name) ==
    IF row.t = "obj" /\ \E i \in 1 .. Len(row.v) : row.v[i][1] = name
    THEN row.v[CHOOSE i \in 1 .. Len(row.v) :
                   /\ row.v[i][1] = name
                   /\ \A j \in 1 .. Len(row.v) : row.v[j][1] = name => j <= i][2]
    ELSE Undefined

\* Elements of the body of a push: {a: 5, b: "x"}, {a: "7", z: 1}, {b?: 2},
\* {}, a number, a text, a list, null.
RawInstances ==
    { Instance(<< << << 97 >>, Num(5, 1) >>, << << 98 >>, Str(<< 120 >>) >> >>),
      Instance(<< << << 97 >>, Str(<< 55 >>) >>, << << 122 >>, Num(1, 1) >> >>),
      Instance(<< << << 98, 63 >>, Num(2, 1) >> >>),
      Instance(<< >>),
      Num(3, 1), Str(<< 120 >>), Arr(<< Num(1, 1) >>), Null }

\* Bodies of a push: lists of at most two elements, and values that are no
\* list.
RawBodies ==
    { Arr(list) : list \in Lists(RawInstances) }
    \cup { Null, Undefined, Num(3, 1), Str(<< 120 >>), Instance(<< << << 97 >>, Num(5, 1) >> >>) }

\* The instance of one element: row is the element when typeof says
\* "object" and an object without keys otherwise; reading a key of null
\* throws a TypeError.
SanitizeInstance(features, i) ==
    IF typeof(i) = "object" /\ i.t = "null" /\ features # << >> THEN TypeError
    ELSE LET row == IF typeof(i) # "object" THEN Instance(<< >>) ELSE i
         IN Returned([k \in 1 .. Len(features) |->
                          turnInto(Lookup(row, features[k].name), features[k].type)])

\* DataSource.sanitizeInstances(table, instances).
sanitizeInstances(features, instances) ==
    IF instances.t # "arr" THEN Returned(<< >>)
    ELSE LET results == [n \in 1 .. Len(instances.v) |-> SanitizeInstance(features, instances.v[n])]
         IN IF \E n \in 1 .. Len(results) : results[n].t = "throw"
            THEN TypeError
            ELSE Returned([n \in 1 .. Len(results) |-> results[n].v])

\* The push handler sanitizes the body of the request.
SanitizeBody ==
    /\ call.t = "instances"
    /\ result = NotRun
    /\ result' = sanitizeInstances(fields, call.v.body)
    /\ UNCHANGED << call, serverVars, filterVars, streamVars >>

InstanceInit ==
    /\ Quiet
    /\ NoFilter
    /\ fields \in FieldLists
    /\ NoStream
    /\ call \in { [t |-> "instances", v |-> [body |-> body]] : body \in RawBodies }
    /\ result = NotRun

InstanceNext == SanitizeBody

InstanceSpec == InstanceInit /\ [][InstanceNext]_vars

\* ------------------------------------------------------ push, then count

\* The field lists of the scenario: a and b, numeric and nominal, text and
\* logic.
ScenarioFields == { features \in FieldLists : Len(features) = 2 }

\* The bodies pushed: lists of at most two of {a: 5, b: "x"}, {a: 6, b: "x"}
\* and {b: "y"}.
ScenarioBodies ==
    { Arr(list) : list \in Lists(
          { Instance(<< << << 97 >>, Num(5, 1) >>, << << 98 >>, Str(<< 120 >>) >> >>),
            Instance(<< << << 97 >>, Num(6, 1) >>, << << 98 >>, Str(<< 120 >>) >> >>),
            Instance(<< << << 98 >>, Str(<< 121 >>) >> >>) }) }

\* The leaf "field left is right", and the leaf "field left is null".
EqLeaf(left, right) == Obj(Str(S_single), Str(O_eq), Num(left, 1), Str(right), Undefined)

NullLeaf(left) == Obj(Str(S_single), Str(S_null), Num(left, 1), Null, Undefined)

\* The filters counted with: none, a = "5", a = "6", b = "x", a is null, and
\* trees over them.
ScenarioFilters ==
    { Null,
      EqLeaf(0, << 53 >>), EqLeaf(0, << 54 >>), EqLeaf(1, << 120 >>), NullLeaf(0),
      RawNode(Str(S_not), Arr(<< EqLeaf(0, << 53 >>) >>)),
      RawNode(Str(S_not), Arr(<< NullLeaf(0) >>)),
      RawNode(Str(S_anyof), Arr(<< EqLeaf(0, << 53 >>), NullLeaf(0) >>)),
      RawNode(Str(S_allof), Arr(<< NullLeaf(0), RawNode(Str(S_not), Arr(<< NullLeaf(1) >>)) >>)) }

\* The request that pushes and the source it pushes to.
Pusher == 1

Pushed == 1

\* The values of instance k of the body, as pushInstances receives them.
ValuesOf(k) == sanitizeInstances(fields, call.v.body).v[k]

\* Truth values of SQL conditions.
Or3(S) == IF "T" \in S THEN "T" ELSE IF "U" \in S THEN "U" ELSE "F"

And3(S) == IF "F" \in S THEN "F" ELSE IF "U" \in S THEN "U" ELSE "T"

Not3(x) == IF x = "T" THEN "F" ELSE IF x = "F" THEN "T" ELSE "U"

\* What the database finds the condition of a tree to be on a row: the
\* comparisons IS NULL and = of the leaves, NOT, OR and AND of the nodes,
\* over the children that toSQLCondition gives a condition for.
RECURSIVE Eval(_, _, _)
Eval(features, row, query) ==
    LET kept == { i \in 1 .. Len(query.children) :
                      toSQLCondition(features, query.children[i]).sql # << >> }
        below == { Eval(features, row, query.children[i]) : i \in kept }
    IN CASE query.type = S_anyof -> Or3(below)
         [] query.type = S_allof -> And3(below)
         [] query.type = S_not -> Not3(Or3(below))
         [] OTHER ->
                LET value == row[query.left + 1]
                    cmp == turnInto(query.right, features[query.left + 1].type)
                IN IF query.operation = S_null
                   THEN IF value = Null THEN "T" ELSE "F"
                   ELSE IF value = Null \/ cmp = Null THEN "U"
                   ELSE IF value = cmp THEN "T" ELSE "F"

\* The rows among ids that satisfy the condition of the filter; every row
\* when there is no condition.
Satisfying(features, ids, query) ==
    { id \in ids : \/ toSQLCondition(features, query).sql = << >>
                   \/ Eval(features, ValuesOf(id[2]), query) = "T" }

\* The ? of a statement that stand outside double quotes: those with an
\* even number of quotes before them.
UnquotedPlaceholders(sql) ==
    Cardinality({ i \in 1 .. Len(sql) :
                      /\ sql[i] = PLACEHOLDER
                      /\ Cardinality({ j \in 1 .. i - 1 : sql[j] = SQL_quote[1] }) % 2 = 0 })

\* PostgreSQL prepares and binds a statement: a ? outside an identifier is
\* a syntax error, and the values bound must be as many as the parameters
\* $1, $2, ... of the statement, of which the code of countInstances writes
\* none.
PgAccepts(sql, values) == UnquotedPlaceholders(sql) = 0 /\ values = << >>

\* The promise of countInstances rejected: the handler answers nothing.
Rejected == [t |-> "reject", v |-> << >>]

\* POST /source/count after the push has been answered: sanitizeFilter, then
\* countInstances up to pool.query; 400 when sanitizeFilter throws.
CountRequest ==
    /\ call.t = "scenario"
    /\ reqs[Pusher].st \in {"ok", "fail"}
    /\ filter = NotRun
    /\ filter' = sanitizeFilter(json)
    /\ IF filter'.t = "return"
       THEN /\ cond' = Returned(toSQLCondition(fields, filter'.v))
            /\ UNCHANGED result
       ELSE /\ result' = [t |-> "status", v |-> 400]
            /\ UNCHANGED cond
    /\ UNCHANGED << json, fields, call, serverVars, streamVars >>

\* The callback of pool.query in countInstances. The statement is
\* SELECT COUNT(*) FROM table.table WHERE cond.sql with the values
\* cond.params; cond.sql goes to pg as toSQLCondition wrote it.
CountReply ==
    /\ call.t = "scenario"
    /\ cond.t = "return"
    /\ result = NotRun
    /\ result' = IF PgAccepts(cond.v.sql, cond.v.params)
                 THEN Returned(Cardinality(Satisfying(fields, persisted[SourceRelation(Pushed)], filter.v)))
                 ELSE Rejected
    /\ UNCHANGED << call, filterVars, serverVars, streamVars >>

ScenarioInit ==
    /\ Quiet
    /\ json \in ScenarioFilters
    /\ fields \in ScenarioFields
    /\ filter = NotRun
    /\ cond = NotRun
    /\ NoStream
    /\ call \in { [t |-> "scenario", v |-> [body |-> body]] : body \in ScenarioBodies }
    /\ result = NotRun

ScenarioNext ==
    \/ PushRequest(Pusher, Pushed, Len(call.v.body.v)) /\ UNCHANGED handled
    \/ InsertOk(Pusher)
    \/ InsertFail(Pusher)
    \/ CountRequest
    \/ CountReply

ScenarioSpec == ScenarioInit /\ [][ScenarioNext]_vars

\* ------------------------------------------------------- nominal values

\* The pieces of the statement of getNominalValues.
SQL_select_distinct == << 83, 69, 76, 69, 67, 84, 32, 68, 73, 83, 84, 73, 78, 67, 84, 32 >>

SQL_from == << 34, 32, 70, 82, 79, 77, 32, 34 >>

SQL_where == << 32, 87, 72, 69, 82, 69, 32 >>

SQL_where_open == << 32, 87, 72, 69, 82, 69, 32, 40 >>

SQL_and_name == << 41, 32, 65, 78, 68, 32, 34 >>

SQL_name_like == << 34, 32, 76, 73, 75, 69, 32, 63 >>

SQL_order_by == << 32, 79, 82, 68, 69, 82, 32, 66, 89, 32, 34 >>

SQL_quote_space == << 34, 32 >>

SQL_limit == << 32, 76, 73, 77, 73, 84, 32 >>

SQL_128 == << 49, 50, 56 >>

\* table.table of the first source, "readings", as text.
S_readings == << 114, 101, 97, 100, 105, 110, 103, 115 >>

\* parseInt(str, 10) || 0: the digits after an optional sign; 0 when there
\* are none.
parseIntOrZero(str) ==
    LET signed == Len(str) > 0 /\ str[1] \in {43, 45}
        body == IF signed THEN Tail(str) ELSE str
        digits == CHOOSE k \in 0 .. Len(body) :
                      /\ \A i \in 1 .. k : body[i] \in 48 .. 57
                      /\ k < Len(body) => body[k + 1] \notin 48 .. 57
        value == DigitsValue(SubSeq(body, 1, digits))
    IN IF signed /\ str[1] = 45 THEN 0 - value ELSE value

\* The feature index the handler passes: -1 without a feature in the body.
FeatureIndex(raw) == IF raw = Undefined THEN -1 ELSE parseIntOrZero(StringOf(raw))

\* The text query the handler passes: (request.body.query || "") + "".
QueryText(raw) == IF Truthy(raw) THEN StringOf(raw) ELSE << >>

\* A statement without its LIMIT.
Unlimited(features, name, cond1, query) ==
    [sql |-> SQL_select_distinct \o SQL_quote \o name \o SQL_from \o S_readings \o SQL_quote
                 \o SQL_order_by \o name \o SQL_quote_space,
     params |-> << >>]

\* The statement and the values getNominalValues hands to pool.query.
NominalSentence(features, name, cond1, query) ==
    LET lowered == toLowerCase(query)
        where ==
            IF cond1.sql # << >>
            THEN IF lowered # << >>
                 THEN [sql |-> SQL_where_open \o cond1.sql \o SQL_and_name \o name \o SQL_name_like,
                       params |-> cond1.params \o << Str(replaceWildcards(lowered) \o PERCENT) >>]
                 ELSE [sql |-> SQL_where \o cond1.sql, params |-> cond1.params]
            ELSE IF lowered # << >>
                 THEN [sql |-> SQL_where \o SQL_quote \o name \o SQL_name_like,
                       params |-> << Str(replaceWildcards(lowered) \o PERCENT) >>]
                 ELSE [sql |-> << >>, params |-> << >>]
    IN [sql |-> SQL_select_distinct \o SQL_quote \o name \o SQL_from \o S_readings \o SQL_quote
                    \o where.sql \o SQL_order_by \o name \o SQL_quote_space \o SQL_limit \o SQL_128,
        params |-> where.params]

\* DataSource.getNominalValues up to pool.query: the empty list at once, or
\* the statement issued.
getNominalValues(features, query, text, feature) ==
    IF \/ feature < 0
       \/ feature >= Len(features)
       \/ features[feature + 1].type # "nominal"
    THEN [issued |-> FALSE, value |-> << >>]
    ELSE [issued |-> TRUE,
          value |-> NominalSentence(features, features[feature + 1].name,
                                    toSQLCondition(features, query), text)]

\* The number after the last LIMIT of a statement that ends with one; -1
\* for a statement without a limit.
LimitOf(sql) ==
    LET starts == { i \in 1 .. Len(sql) - Len(SQL_limit) :
                        /\ SubSeq(sql, i, i + Len(SQL_limit) - 1) = SQL_limit
                        /\ IsDigits(SubSeq(sql, i + Len(SQL_limit), Len(sql))) }
    IN IF starts = {} THEN -1
       ELSE LET i == CHOOSE j \in starts : TRUE
            IN DigitsValue(SubSeq(sql, i + Len(SQL_limit), Len(sql)))

\* Numbers of distinct values of the field in the rows of the table.
DistinctCounts == { 0, 1, 128, 129 }

\* The bodies of POST /source/nominal/values: feature (nothing, null, 0, 1,
\* 2, "1", "-1", "x"), query (nothing, "", "A%", 0, 5) and the number of
\* distinct values the table holds.
RawFeatures ==
    { Undefined, Null, Num(0, 1), Num(1, 1), Num(2, 1), Str(<< 49 >>), Str(<< 45, 49 >>), Str(<< 120 >>) }

RawQueries == { Undefined, Str(<< >>), Str(<< 65, 37 >>), Num(0, 1), Num(5, 1) }

\* Filters of the request: none, a = "5", a is null, and a node with a null
\* child.
NominalFilters ==
    { Null, EqLeaf(0, << 53 >>), NullLeaf(0), RawNode(Str(S_not), Arr(<< Null >>)) }

\* POST /source/nominal/values: sanitizeFilter (400 when it throws), the
\* feature and the query of the body, then getNominalValues up to
\* pool.query, or to its early return, which the handler answers.
NominalRequest ==
    /\ call.t = "nominal"
    /\ filter = NotRun
    /\ filter' = sanitizeFilter(json)
    /\ IF filter'.t # "return"
       THEN /\ result' = [t |-> "status", v |-> 400]
            /\ UNCHANGED cond
       ELSE LET got == getNominalValues(fields, filter'.v, QueryText(call.v.query),
                                        FeatureIndex(call.v.feature))
            IN IF got.issued
               THEN /\ cond' = Returned(got.value)
                    /\ UNCHANGED result
               ELSE /\ result' = Returned(got.value)
                    /\ UNCHANGED cond
    /\ UNCHANGED << json, fields, call, serverVars, streamVars >>

\* The callback of pool.query in getNominalValues: an error rejects;
\* otherwise the values of the rows, as many as the table has distinct
\* values and the statement allows.
NominalReply ==
    /\ call.t = "nominal"
    /\ cond.t = "return"
    /\ result = NotRun
    /\ result' = IF ~PgAccepts(cond.v.sql, cond.v.params) THEN Rejected
                 ELSE LET limit == LimitOf(cond.v.sql)
                          n == IF limit >= 0 /\ limit < call.v.distinct THEN limit ELSE call.v.distinct
                      IN Returned([i \in 1 .. n |-> i])
    /\ UNCHANGED << call, filterVars, serverVars, streamVars >>

NominalInit ==
    /\ Quiet
    /\ json \in NominalFilters
    /\ fields \in FieldLists
    /\ filter = NotRun
    /\ cond = NotRun
    /\ NoStream
    /\ call \in { [t |-> "nominal", v |-> [feature |-> feature, query |-> query, distinct |-> distinct]] :
                      feature \in RawFeatures, query \in RawQueries, distinct \in DistinctCounts }
    /\ result = NotRun

NominalNext == NominalRequest \/ NominalReply

NominalSpec == NominalInit /\ [][NominalNext]_vars

\* --------------------------------------------------- the statement of query

\* The pieces of the statement of query.
SQL_select == << 83, 69, 76, 69, 67, 84, 32 >>

SQL_star == << 42 >>

SQL_comma_space == << 44, 32 >>

SQL_from_table == << 32, 70, 82, 79, 77, 32, 34 >>

SQL_desc == << 68, 69, 83, 67 >>

SQL_asc == << 65, 83, 67 >>

SQL_offset == << 32, 79, 70, 70, 83, 69, 84, 32 >>

S_desc == << 100, 101, 115, 99 >>

\* proj.join(", ") over the quoted names of the fields of the indices.
RECURSIVE JoinNames(_, _)
JoinNames(features, indices) ==
    IF indices = << >> THEN << >>
    ELSE SQL_quote \o features[Head(indices) + 1].name \o SQL_quote
         \o (IF Len(indices) > 1 THEN SQL_comma_space ELSE << >>)
         \o JoinNames(features, Tail(indices))

\* A statement with a LIMIT clause for every limit that is not negative.
QuerySentenceLimitZero(features, cond1, order, dir, skip, limit, projection) ==
    [sql |-> SQL_select \o SQL_star \o SQL_from_table \o S_readings \o SQL_quote
                 \o (IF limit >= 0 THEN SQL_limit \o Digits(limit) ELSE << >>),
     params |-> cond1.params]

\* The statement and the values query hands to the cursor.
QuerySentence(features, cond1, order, dir, skip, limit, projection) ==
    LET valid == SelectIndices([i \in 1 .. Len(projection) |-> << projection[i] >>], features)
        select == IF Len(projection) > 0 THEN JoinNames(features, valid) ELSE SQL_star
        where == IF cond1.sql # << >> THEN SQL_where \o cond1.sql ELSE << >>
        ordered == IF order >= 0 /\ order < Len(features)
                   THEN SQL_order_by \o features[order + 1].name \o SQL_quote_space
                            \o (IF dir = S_desc THEN SQL_desc ELSE SQL_asc)
                   ELSE << >>
        limited == IF limit > 0 THEN SQL_limit \o Digits(limit) ELSE << >>
        skipped == IF skip > 0 THEN SQL_offset \o Digits(skip) ELSE << >>
    IN [sql |-> SQL_select \o select \o SQL_from_table \o S_readings \o SQL_quote
                    \o where \o ordered \o limited \o skipped,
        params |-> cond1.params]

\* The order the handler passes: -1 without an order in the body.
OrderIndex(raw) ==
    IF raw = Undefined \/ raw = Str(<< >>) THEN -1 ELSE parseIntOrZero(StringOf(raw))

\* Values of order, dir, skip and limit in the body of POST /source/query:
\* nothing, "", numbers, "-1", "x"; nothing, "desc", "DESC", "asc".
RawOrders == { Undefined, Str(<< >>), Num(0, 1), Num(1, 1), Num(5, 1), Str(<< 45, 49 >>), Str(<< 120 >>) }

RawDirs == { Undefined, Str(S_desc), Str(SQL_desc), Str(<< 97, 115, 99 >>) }

RawAmounts == { Undefined, Num(0, 1), Num(12, 1), Str(<< 45, 50 >>) }

\* POST /source/query up to the await of pool.connect: sanitizeFilter (400
\* when it throws), the order, dir, skip, limit and projection of the body,
\* and the statement of query.
BuildQuery ==
    /\ call.t = "clauses"
    /\ filter = NotRun
    /\ filter' = sanitizeFilter(json)
    /\ IF filter'.t # "return"
       THEN /\ result' = [t |-> "status", v |-> 400]
            /\ UNCHANGED cond
       ELSE /\ cond' = Returned(QuerySentence(fields, toSQLCondition(fields, filter'.v),
                                              OrderIndex(call.v.order), StringOf(call.v.dir),
                                              parseIntOrZero(StringOf(call.v.skip)),
                                              parseIntOrZero(StringOf(call.v.limit)),
                                              sanitizeProjection(fields, call.v.projection)))
            /\ UNCHANGED result
    /\ UNCHANGED << json, fields, call, serverVars, streamVars >>

ClauseInit ==
    /\ Quiet
    /\ json \in { Null, EqLeaf(0, << 53 >>), RawNode(Str(S_not), Arr(<< Null >>)) }
    /\ fields \in FieldLists
    /\ filter = NotRun
    /\ cond = NotRun
    /\ NoStream
    /\ call \in { [t |-> "clauses",
                   v |-> [order |-> order, dir |-> dir, skip |-> skip, limit |-> limit,
                          projection |-> projection]] :
                      order \in RawOrders, dir \in RawDirs, skip \in RawAmounts,
                      limit \in RawAmounts, projection \in Projections }
    /\ result = NotRun

ClauseNext == BuildQuery

ClauseSpec == ClauseInit /\ [][ClauseNext]_vars

\* ------------------------------------------- statements handed to the database

\* The pieces of the statements of pushInstance and countInstances.
SQL_insert_into == << 73, 78, 83, 69, 82, 84, 32, 73, 78, 84, 79, 32, 34 >>

SQL_columns_open == << 34, 40 >>

SQL_values == << 41, 32, 86, 65, 76, 85, 69, 83, 32, 40 >>

SQL_comma == << 44 >>

SQL_count == << 83, 69, 76, 69, 67, 84, 32, 67, 79, 85, 78, 84, 40, 42, 41, 32, 65, 83, 32, 34, 99,
                111, 117, 110, 116, 34, 32, 70, 82, 79, 77, 32, 34 >>

DOLLAR == 36

\* The first ? of a text, 0 when it has none.
IndexOfPlaceholder(text) ==
    IF \E k \in 1 .. Len(text) : text[k] = PLACEHOLDER
    THEN CHOOSE k \in 1 .. Len(text) :
             text[k] = PLACEHOLDER /\ \A j \in 1 .. k - 1 : text[j] # PLACEHOLDER
    ELSE 0

\* The loop of toPostgresTemplate from the counter i on: the first ? becomes
\* $i while there is one.
RECURSIVE TemplateFrom(_, _)
TemplateFrom(queryTemplate, i) ==
    LET k == IndexOfPlaceholder(queryTemplate)
    IN IF k = 0 THEN queryTemplate
       ELSE TemplateFrom(SubSeq(queryTemplate, 1, k - 1) \o << DOLLAR >> \o Digits(i)
                             \o SubSeq(queryTemplate, k + 1, Len(queryTemplate)),
                         i + 1)

\* toPostgresTemplate(queryTemplate).
toPostgresTemplate(queryTemplate) == TemplateFrom(queryTemplate, 1)

\* sqlKeys.join(",") and qm.join(",") of pushInstance.
RECURSIVE JoinKeys(_)
JoinKeys(features) ==
    IF features = << >> THEN << >>
    ELSE SQL_quote \o Head(features).name \o SQL_quote
         \o (IF Len(features) > 1 THEN SQL_comma ELSE << >>) \o JoinKeys(Tail(features))

RECURSIVE JoinMarks(_)
JoinMarks(features) ==
    IF features = << >> THEN << >>
    ELSE << PLACEHOLDER >> \o (IF Len(features) > 1 THEN SQL_comma ELSE << >>)
         \o JoinMarks(Tail(features))

\* The statement and the values pushInstance hands to pool.query: the
\* relation is the text of the table object.
InsertSentence(features, instance) ==
    [sql |-> toPostgresTemplate(SQL_insert_into \o S_object \o SQL_columns_open \o JoinKeys(features)
                                    \o SQL_values \o JoinMarks(features) \o SQL_close),
     params |-> [k \in 1 .. Len(features) |-> instance[features[k].index + 1]]]

\* The statement and the values countInstances hands to pool.query.
CountSentence(features, cond1) ==
    [sql |-> SQL_count \o S_readings \o SQL_quote
                 \o (IF cond1.sql # << >> THEN SQL_where \o cond1.sql ELSE << >>),
     params |-> cond1.params]

\* The functions of DataSource that hand a statement to the database.
StatementKinds == { "insert", "count", "query", "nominal" }

\* The filters of the requests: none, a = "5", a is null, a = "5" or
\* b = "x".
StatementFilters ==
    { Null, EqLeaf(0, << 53 >>), NullLeaf(0),
      RawNode(Str(S_anyof), Arr(<< EqLeaf(0, << 53 >>), EqLeaf(1, << 120 >>) >>)) }

\* One call of pushInstance (for the instance a: 5, b: "x"), countInstances,
\* query (no order, limit, skip or projection) or getNominalValues, up to
\* the statement it hands to the database.
HandStatement ==
    /\ call.t = "statement"
    /\ filter = NotRun
    /\ filter' = sanitizeFilter(json)
    /\ LET cond1 == toSQLCondition(fields, filter'.v)
           instance == SanitizeInstance(fields, Instance(<< << << 97 >>, Num(5, 1) >>,
                                                             << << 98 >>, Str(<< 120 >>) >> >>)).v
           nominal == getNominalValues(fields, filter'.v, call.v.text, call.v.feature)
       IN CASE call.v.kind = "insert" ->
                   cond' = Returned(InsertSentence(fields, instance)) /\ UNCHANGED result
            [] call.v.kind = "count" ->
                   cond' = Returned(CountSentence(fields, cond1)) /\ UNCHANGED result
            [] call.v.kind = "query" ->
                   cond' = Returned(QuerySentence(fields, cond1, -1, << >>, 0, 0, << >>))
                       /\ UNCHANGED result
            [] OTHER ->
                   IF nominal.issued
                   THEN cond' = Returned(nominal.value) /\ UNCHANGED result
                   ELSE result' = Returned(nominal.value) /\ UNCHANGED cond
    /\ UNCHANGED << json, fields, call, serverVars, streamVars >>

StatementInit ==
    /\ Quiet
    /\ json \in StatementFilters
    /\ fields \in FieldLists
    /\ filter = NotRun
    /\ cond = NotRun
    /\ NoStream
    /\ call \in { [t |-> "statement", v |-> [kind |-> kind, text |-> text, feature |-> feature]] :
                      kind \in StatementKinds, text \in { << >>, << 97 >> }, feature \in 0 .. 1 }
    /\ result = NotRun

StatementNext == HandStatement

StatementSpec == StatementInit /\ [][StatementNext]_vars

\* ------------------------------------------------------------- CrashGuard

\* The delay of runUntilSuccess when none is given.
DEFAULT_DELAY == 5000

\* The delays runUntilSuccess is called with: none, one second, the default.
Delays == { 0, 1000, DEFAULT_DELAY }

\* tryFunc(func, delay, callback) up to the end of its step: func throws
\* and the timer is armed, or func returns its promise.
tryFunc(g, throws) ==
    IF throws
    THEN [g EXCEPT !.outcomes = Append(@, "throw"), !.armed = g.delay, !.pc = "timer"]
    ELSE [g EXCEPT !.active = @ + 1, !.armed = 0, !.pc = "run"]

guardFrame == << ingestVars, tableKeys, handled, filterVars, callVars, streamVars >>

\* CrashGuard.runUntilSuccess(fn, delay): the promise is created and tryFunc
\* runs with delay || 5000.
RunUntilSuccess(delay, throws) ==
    /\ guard.pc = "idle"
    /\ guard' = tryFunc([guard EXCEPT !.arg = delay,
                                       !.delay = IF delay # 0 THEN delay ELSE DEFAULT_DELAY,
                                       !.promise = "pending"],
                        throws)
    /\ UNCHANGED guardFrame

\* The promise of fn resolves: then(callback) calls resolve.
FnResolves ==
    /\ guard.pc = "run"
    /\ guard' = [guard EXCEPT !.active = @ - 1,
                              !.outcomes = Append(@, "resolve"),
                              !.resolves = @ + 1,
                              !.promise = "resolved",
                              !.pc = "done"]
    /\ UNCHANGED guardFrame

\* A rejection that is taken for a success.
FnRejectsResolves ==
    /\ guard.pc = "run"
    /\ guard' = [guard EXCEPT !.active = @ - 1,
                              !.outcomes = Append(@, "reject"),
                              !.resolves = @ + 1,
                              !.promise = "resolved",
                              !.pc = "done"]
    /\ UNCHANGED guardFrame

\* The promise of fn rejects: the catch handler logs and arms the timer.
FnRejects ==
    /\ guard.pc = "run"
    /\ guard' = [guard EXCEPT !.active = @ - 1,
                              !.outcomes = Append(@, "reject"),
                              !.armed = guard.delay,
                              !.pc = "timer"]
    /\ UNCHANGED guardFrame

\* The timer fires: tryFunc again.
TimerFires(throws) ==
    /\ guard.pc = "timer"
    /\ Len(guard.outcomes) < MaxRuns
    /\ guard' = tryFunc([guard EXCEPT !.armed = 0], throws)
    /\ UNCHANGED guardFrame

GuardNext ==
    \/ \E delay \in Delays, throws \in BOOLEAN : RunUntilSuccess(delay, throws)
    \/ FnResolves
    \/ FnRejects
    \/ \E throws \in BOOLEAN : TimerFires(throws)

GuardSpec == Init /\ [][GuardNext]_vars

\* ------------------------------------------------------------------ claims

Range(seq) == {seq[i] : i \in 1 .. Len(seq)}

IsPrefix(a, b) == Len(a) <= Len(b) /\ SubSeq(b, 1, Len(a)) = a

Position(seq, x) == CHOOSE i \in 1 .. Len(seq) : seq[i] = x

NoDuplicates(seq) == Cardinality(Range(seq)) = Len(seq)

\* C1: every instance appended to the queue of a source is eventually in a
\* forward call that succeeds, whatever the pushes were, also when a
\* pushInstances call failed after it had enqueued some of its instances.
C1_EveryAppendedInstanceForwarded ==
    \A s \in Sources, i \in Instances :
        (i \in Range(appended[s])) ~> (i \in Range(forwarded[s]))

\* C2: the instances a drain leaves in the queue because the batch is full
\* are forwarded in further cycles, with no further push or notice needed.
\* Stated for the instances of push requests that were answered 200.
C2_BacklogDrained ==
    \A s \in Sources, i \in Instances :
        (/\ backlog[s] > 0
         /\ i \in Range(SubSeq(updateQueue[s], 1, backlog[s]))
         /\ reqs[i[1]].kind = "http" /\ reqs[i[1]].st = "ok")
            ~> (i \in Range(forwarded[s]))

\* C3: an instance accepted through onMessage (valid JSON, a topic of a
\* source, INSERT succeeded) is eventually forwarded by the worker of the
\* source, with no later push or notice needed.
C3_MqttInstanceForwarded ==
    \A r \in Requests, s \in Sources :
        (reqs[r].kind = "mqtt" /\ reqs[r].st = "ok" /\ reqs[r].src = s)
            ~> (<< r, 1 >> \in Range(forwarded[s]))

\* C4: the acknowledged batches of a source, concatenated in the order of
\* their acknowledgement, are the instances in the order they were appended
\* to its queue (a prefix of it, the rest being in flight or queued), and the
\* instances of one pushInstances call are appended in the order of the call.
C4_FifoForwarding ==
    \A s \in Sources :
        /\ IsPrefix(forwarded[s], appended[s])
        /\ IsPrefix(forwarded[s] \o instancesToPush[s], appended[s])
        /\ \A i, j \in Range(appended[s]) :
               i[1] = j[1] /\ i[2] < j[2]
                   => Position(appended[s], i) < Position(appended[s], j)

\* Two pushInstances calls interleaved on one source, forwarded in more than
\* one batch.
C4_Witness ==
    \E s \in Sources :
        /\ Len(forwarded[s]) > DEEPINT_UPDATE_INSTANCES_LIMIT
        /\ forwarded[s] = appended[s]
        /\ \E i \in 1 .. Len(appended[s]) - 2 :
               /\ appended[s][i][1] = appended[s][i + 2][1]
               /\ appended[s][i][1] # appended[s][i + 1][1]

\* C5: every attempt of a cycle sends the batch of the first attempt, and
\* nothing is dequeued before the batch is acknowledged: the queue still
\* follows that batch in the order of appending.
C5_RetrySameBatch ==
    \A s \in Sources :
        wpc[s] \in {"sending", "backoff"} =>
            /\ lastSent[s] = firstSent[s]
            /\ instancesToPush[s] = firstSent[s]
            /\ appended[s] = forwarded[s] \o firstSent[s] \o updateQueue[s]

\* A retry in flight after instances were enqueued and a notice arrived
\* during the cycle.
C5_Witness ==
    \E s \in Sources :
        /\ wpc[s] = "sending"
        /\ retried[s]
        /\ Len(firstSent[s]) > 0
        /\ Len(updateQueue[s]) > 0
        /\ requiredUpdate[s]

\* C6: every appended instance is in exactly one place: the acknowledged
\* batches, the batch in flight or in backoff, or the queue.
C6_NoLossNoDuplication ==
    \A s \in Sources :
        /\ appended[s] = forwarded[s] \o instancesToPush[s] \o updateQueue[s]
        /\ NoDuplicates(forwarded[s] \o instancesToPush[s] \o updateQueue[s])
        /\ wpc[s] = "acquire" => instancesToPush[s] = << >>

\* All three places hold instances, with more in the queue than one batch
\* takes and the batch in backoff.
C6_Witness ==
    \E s \in Sources :
        /\ wpc[s] = "backoff"
        /\ Len(forwarded[s]) > 0
        /\ Len(instancesToPush[s]) = DEEPINT_UPDATE_INSTANCES_LIMIT
        /\ Len(updateQueue[s]) > DEEPINT_UPDATE_INSTANCES_LIMIT

\* C7: at most one forward call of a source is outstanding, and none is when
\* the worker is at acquire(), the only place from which it dequeues.
C7_OneForwardInFlight ==
    \A s \in Sources :
        /\ outstanding[s] <= 1
        /\ wpc[s] = "acquire" => outstanding[s] = 0
        /\ wpc[s] = "backoff" => outstanding[s] = 0

\* Both sources have a forward call outstanding, one of them with instances
\* waiting in its queue.
C7_Witness ==
    /\ \A s \in Sources : outstanding[s] = 1
    /\ \E s \in Sources : Len(updateQueue[s]) > 0 /\ updateSem[s] > 0

C9_NoLostWakeUp ==
    \A s \in Sources :
        (wpc[s] = "acquire" /\ updateSem[s] = 0) =>
            /\ ~requiredUpdate[s]
            /\ \A r \in Requests :
                   (reqs[r].st = "ok" /\ reqs[r].src = s /\ reqs[r].awake)
                       => \A k \in 1 .. reqs[r].n : << r, k >> \notin Range(updateQueue[s])

\* C10: every instance that is queued, in flight or forwarded is a row of the
\* table of its source.
C10_PersistBeforeEnqueue ==
    \A s \in Sources :
        Range(appended[s]) \subseteq persisted[SourceRelation(s)]

\* C11: when the INSERT of instance i of a pushInstances call fails, the call
\* fails; instance i and the later ones are in no relation and were never
\* enqueued; the instances before i are rows of the table of the source and
\* are still enqueued (queued, in flight or forwarded).
C11_FailureAbortsRest ==
    \A r \in Requests :
        reqs[r].st = "fail" =>
            LET s == reqs[r].src IN
            /\ \A k \in reqs[r].idx .. reqs[r].n :
                   /\ \A rel \in Relations : << r, k >> \notin persisted[rel]
                   /\ << r, k >> \notin Range(appended[s])
            /\ \A k \in 1 .. reqs[r].idx - 1 :
                   /\ << r, k >> \in persisted[SourceRelation(s)]
                   /\ << r, k >> \in Range(forwarded[s] \o instancesToPush[s] \o updateQueue[s])

\* C12: no forward call carries more instances than the limit, whatever the
\* length of the queue was when the worker woke.
C12_BatchSizeBound ==
    \A s \in Sources :
        /\ Len(instancesToPush[s]) <= DEEPINT_UPDATE_INSTANCES_LIMIT
        /\ Len(lastSent[s]) <= DEEPINT_UPDATE_INSTANCES_LIMIT
        /\ Len(firstSent[s]) <= DEEPINT_UPDATE_INSTANCES_LIMIT

\* A forward call in flight with a full batch, drained from a queue that was
\* at least twice the limit.
C12_Witness ==
    \E s \in Sources :
        /\ wpc[s] = "sending"
        /\ ~retried[s]
        /\ Len(lastSent[s]) = DEEPINT_UPDATE_INSTANCES_LIMIT
        /\ backlog[s] >= DEEPINT_UPDATE_INSTANCES_LIMIT
        /\ Len(updateQueue[s]) = backlog[s]

\* A step of a handler, of the worker or of a callback of source a.
StepOfSource(a) ==
    \/ \E r \in Requests, n \in 0 .. MaxBatch : PushRequest(r, a, n)
    \/ \E r \in Requests, topic \in Topics, validJson \in BOOLEAN :
           getTableFromTopic(topic) = a /\ MqttMessage(r, topic, validJson)
    \/ \E r \in Requests : reqs[r].src = a /\ (InsertOk(r) \/ InsertFail(r))
    \/ NoticeRequest(a)
    \/ WorkerSkip(a)
    \/ WorkerDrain(a)
    \/ ForwardOk(a)
    \/ ForwardFail(a)
    \/ BackoffElapsed(a)

\* C13: a step of source a leaves the queue, the flag and the permits of
\* every other source b as they were; and a source b whose forward calls the
\* platform eventually accepts has every notice followed by a forward call
\* and every cycle ended, which it is only by the acknowledgement of the
\* batch it drained, whatever the other sources do, also when their forward
\* calls fail forever.
C13_SourceIsolation ==
    /\ [][\A a, b \in Sources :
              (a # b /\ StepOfSource(a)) =>
                  /\ updateQueue'[b] = updateQueue[b]
                  /\ requiredUpdate'[b] = requiredUpdate[b]
                  /\ updateSem'[b] = updateSem[b]]_vars
    /\ [][\A b \in Sources :
              (wpc[b] # "acquire" /\ wpc'[b] = "acquire") =>
                  forwarded'[b] = forwarded[b] \o firstSent[b]]_vars
    /\ \A b \in Sources :
           SF_vars(ForwardOk(b)) =>
               /\ noticePending[b] ~> ~noticePending[b]
               /\ (wpc[b] # "acquire") ~> (wpc[b] = "acquire")

\* A source whose batch was acknowledged while the batch of another source
\* has been refused more than once and nothing of it was ever acknowledged.
C13_Witness ==
    \E a, b \in Sources :
        /\ a # b
        /\ wpc[a] = "backoff" /\ retried[a]
        /\ Len(instancesToPush[a]) > 0 /\ forwarded[a] = << >>
        /\ Len(forwarded[b]) > 0
        /\ wpc[b] = "sending"

\* The sources both of whose configured keys are the strings of the headers.
SourcesWithKeys(pubKey, secretKey) ==
    {s \in Sources : /\ tableKeys[s].publicKey = HeaderString(pubKey)
                     /\ tableKeys[s].secretKey = HeaderString(secretKey)}

FirstSource(set) == CHOOSE s \in set : \A u \in set : s <= u

\* The request a step has handled, when it has handled one.
Latest == handled'[Len(handled')]

\* C14: getTableFromCredentials returns the first table, in the order of the
\* configuration, whose two keys are the given strings, and null when there
\* is none; a push or a notice the lookup refuses is answered 401 and leaves
\* the database, the queues, the flags and the permits as they were, and one
\* it accepts acts on that first table.
C14_CredentialLookup ==
    /\ [](\A pubKey, secretKey \in HeaderValues :
              LET found == SourcesWithKeys(pubKey, secretKey) IN
              checkAuth(pubKey, secretKey) = IF found = {} THEN 0 ELSE FirstSource(found))
    /\ [][(Len(handled') > Len(handled) /\ Latest.endpoint \in UpdateEndpoints) =>
              LET found == SourcesWithKeys(Latest.pubKey, Latest.secretKey) IN
              IF found = {}
              THEN /\ Latest.status = 401
                   /\ UNCHANGED ingestVars
              ELSE /\ Latest.status # 401
                   /\ \/ /\ requiredUpdate'[FirstSource(found)]
                         /\ updateSem'[FirstSource(found)] = updateSem[FirstSource(found)] + 1
                      \/ \E r \in Requests :
                             /\ reqs[r].st = "none"
                             /\ reqs'[r].st = "insert"
                             /\ reqs'[r].src = FirstSource(found)]_vars

\* The two tables have the same keys, a push with those keys was accepted and
\* its instance enqueued, and a later push was answered 401.
C14_Witness ==
    /\ tableKeys[1] = tableKeys[2]
    /\ Len(handled) = 2
    /\ handled[1].endpoint = "push" /\ handled[1].status = 0
    /\ handled[2].endpoint = "push" /\ handled[2].status = 401
    /\ reqs[1].st = "ok" /\ reqs[1].src = 1
    /\ Len(updateQueue[1]) > 0

\* Headers that no table accepts although the secret key is the secret key
\* of a table.
WrongPublicKey(h) ==
    /\ SourcesWithKeys(h.pubKey, h.secretKey) = {}
    /\ \E s \in Sources : tableKeys[s].secretKey = HeaderString(h.secretKey)

\* Headers that no table accepts although the public key is the public key
\* of a table.
WrongSecretKey(h) ==
    /\ SourcesWithKeys(h.pubKey, h.secretKey) = {}
    /\ \E s \in Sources : tableKeys[s].publicKey = HeaderString(h.pubKey)

\* C15: on every endpoint a request with a wrong public key and a right
\* secret key and a request with a right public key and a wrong secret key
\* get the same response, and the handling of either leaves the state as it
\* was.
C15_UniformDenial ==
    /\ [](\A i, j \in 1 .. Len(handled) :
              (/\ handled[i].endpoint = handled[j].endpoint
               /\ WrongPublicKey(handled[i])
               /\ WrongSecretKey(handled[j])) =>
                  /\ handled[i].status = handled[j].status
                  /\ handled[i].body = handled[j].body)
    /\ [][(Len(handled') > Len(handled) /\ (WrongPublicKey(Latest) \/ WrongSecretKey(Latest))) =>
              UNCHANGED << ingestVars, tableKeys >>]_vars

\* A count request with a wrong public key and one with a wrong secret key,
\* in a configuration where the tables share the secret key and differ in
\* the public key.
C15_Witness ==
    /\ tableKeys[1].secretKey = tableKeys[2].secretKey
    /\ tableKeys[1].publicKey # tableKeys[2].publicKey
    /\ Len(handled) = 2
    /\ handled[1].endpoint = "count" /\ handled[2].endpoint = "count"
    /\ WrongPublicKey(handled[1]) /\ ~WrongSecretKey(handled[1])
    /\ WrongSecretKey(handled[2]) /\ ~WrongPublicKey(handled[2])

\* ---------------------------------------------------- claims on the sanitizer

\* The list of children of a value of a request, empty when it has none.
RawChildren(raw) ==
    IF raw.t = "obj" /\ raw.v.children.t = "arr" THEN raw.v.children.v ELSE << >>

\* Nesting of a value of a request, and of a tree: edges below the root.
RECURSIVE RawDepth(_)
RawDepth(raw) ==
    LET list == RawChildren(raw)
        below == {RawDepth(list[i]) : i \in 1 .. Len(list)}
    IN IF list = << >> THEN 0 ELSE 1 + CHOOSE d \in below : \A e \in below : e <= d

RECURSIVE Depth(_)
Depth(node) ==
    LET below == {Depth(node.children[i]) : i \in 1 .. Len(node.children)}
    IN IF node.children = << >> THEN 0 ELSE 1 + CHOOSE d \in below : \A e \in below : e <= d

\* The longest list of children anywhere in a value, and in a tree.
RECURSIVE RawWidth(_)
RawWidth(raw) ==
    LET list == RawChildren(raw)
        all == {Len(list)} \cup {RawWidth(list[i]) : i \in 1 .. Len(list)}
    IN CHOOSE w \in all : \A x \in all : x <= w

RECURSIVE Width(_)
Width(node) ==
    LET all == {Len(node.children)} \cup {Width(node.children[i]) : i \in 1 .. Len(node.children)}
    IN CHOOSE w \in all : \A x \in all : x <= w

\* Every node of a returned tree with the value it was made from and its
\* depth, the root first.
RECURSIVE NodePairs(_, _, _)
NodePairs(raw, node, depth) ==
    LET list == RawChildren(raw)
        RECURSIVE Below(_)
        Below(i) ==
            IF i > Len(node.children) \/ i > Len(list) THEN << >>
            ELSE NodePairs(list[i], node.children[i], depth + 1) \o Below(i + 1)
    IN << [raw |-> raw, node |-> node, depth |-> depth] >> \o Below(1)

\* A filter tree: a node of the five types, a recognized or empty
\* operation, an integer index, a null or text literal, and a list of
\* filter trees.
RECURSIVE WellFormed(_)
WellFormed(node) ==
    /\ DOMAIN node = {"type", "operation", "left", "right", "children"}
    /\ node.type \in NodeTypes
    /\ node.operation \in Operations \cup {<< >>}
    /\ node.left \in Int
    /\ node.right.t \in {"null", "str"}
    /\ \A i \in 1 .. Len(node.children) : WellFormed(node.children[i])

Sanitized == filter.t = "return" /\ IsTree(filter.v)

\* C16. Sanitize is total: whatever the request carries, children lists
\* with null, numbers, strings or nested arrays included, the sanitizer
\* returns a well-formed filter tree (or the null filter) and never throws.
C16_SanitizeTotal ==
    filter.t # "none" =>
        /\ filter.t = "return"
        /\ IsTree(filter.v) => WellFormed(filter.v)

\* C17. Depth and fan-out bound: the returned tree is at most 4 deep and no
\* node has more than 16 children; the children kept at a node are the
\* sanitized first 16 children of the input node, in input order, and
\* nothing but the excess is dropped.
C17_DepthAndFanOut ==
    Sanitized =>
        /\ Depth(filter.v) <= 4
        /\ Width(filter.v) <= 16
        /\ LET pairs == NodePairs(json, filter.v, 0) IN
           \A k \in 1 .. Len(pairs) :
               LET raw == pairs[k].raw
                   node == pairs[k].node
                   list == RawChildren(raw)
                   kept == IF Len(list) < 16 THEN Len(list) ELSE 16
               IN pairs[k].depth < 4 /\ node.type \in {S_anyof, S_allof, S_not} =>
                      /\ Len(node.children) = kept
                      /\ \A i \in 1 .. kept :
                             node.children[i] = sanitizeQueryTree(list[i], pairs[k].depth + 1).v

\* A request deeper than 4 with a list of more than 16 children has been
\* sanitized to a tree that is 4 deep and 16 wide.
C17_Witness ==
    /\ Sanitized
    /\ RawDepth(json) > 4
    /\ RawWidth(json) > 16
    /\ Depth(filter.v) = 4
    /\ Width(filter.v) = 16

\* C18. Safe defaults: every node of the returned tree has one of the five
\* types and an empty or recognized operation; an input type that is not
\* recognized becomes anyof, an operation that is not recognized becomes the
\* empty one, and only anyof, allof and not nodes have children.
C18_SafeDefaults ==
    Sanitized =>
        LET pairs == NodePairs(json, filter.v, 0) IN
        \A k \in 1 .. Len(pairs) :
            LET raw == pairs[k].raw
                node == pairs[k].node
            IN /\ node.type \in {S_single, S_one, S_anyof, S_allof, S_not}
               /\ node.operation \in Operations \cup {<< >>}
               /\ toLowerCase(StringOf(Get(raw, "type"))) \notin NodeTypes => node.type = S_anyof
               /\ toLowerCase(StringOf(Get(raw, "operation"))) \notin Operations =>
                      node.operation = << >>
               /\ node.children # << >> => node.type \in {S_anyof, S_allof, S_not}

\* The sanitizer has returned a tree for a request with a type and an
\* operation that are not recognized and with children under a leaf type.
C18_Witness ==
    /\ Sanitized
    /\ LET pairs == NodePairs(json, filter.v, 0) IN
       /\ \E k \in 1 .. Len(pairs) :
              /\ typeof(pairs[k].raw) = "object"
              /\ Get(pairs[k].raw, "type").t = "str"
              /\ toLowerCase(Get(pairs[k].raw, "type").v) \notin NodeTypes
              /\ pairs[k].node.type = S_anyof
       /\ \E k \in 1 .. Len(pairs) :
              /\ Get(pairs[k].raw, "operation").t = "str"
              /\ toLowerCase(Get(pairs[k].raw, "operation").v) \notin Operations
              /\ pairs[k].node.operation = << >>
       /\ \E k \in 1 .. Len(pairs) :
              /\ pairs[k].node.type \in {S_single, S_one}
              /\ RawChildren(pairs[k].raw) # << >>
              /\ pairs[k].node.children = << >>

\* ----------------------------------------------------- claims on the compiler

Compiled == cond.t = "return" /\ IsTree(filter.v)

\* The nodes of a tree, the root first, the children from left to right.
RECURSIVE Nodes(_)
Nodes(node) ==
    LET RECURSIVE Below(_)
        Below(i) == IF i > Len(node.children) THEN << >>
                    ELSE Nodes(node.children[i]) \o Below(i + 1)
    IN << node >> \o Below(1)

IsLeaf(node) == node.type \in {S_single, S_one}

\* A leaf that compares nothing: its operation is empty, its field index is
\* outside the field list, or its literal is null under an operation other
\* than null.
NoOpLeaf(features, node) ==
    \/ node.operation = << >>
    \/ node.left \notin 0 .. Len(features) - 1
    \/ node.right.t = "null" /\ node.operation # S_null

AllLeavesNoOp(features, tree) ==
    LET nodes == Nodes(tree)
    IN \A k \in 1 .. Len(nodes) : IsLeaf(nodes[k]) => NoOpLeaf(features, nodes[k])

\* C19. No-op safety: a sanitized tree in which every leaf has an empty
\* operation, a field index out of range or a null literal under an
\* operation other than null compiles to the empty condition (empty sql, no
\* params), whatever the nesting of anyof, allof and not around the leaves; a
\* not node over empty children gives the empty string and no NOT( ).
C19_NoOpSafety ==
    Compiled /\ AllLeavesNoOp(fields, filter.v) => cond.v = EmptyCondition

\* A tree at least two deep, with a not node over children and with a leaf
\* on a field of the table, all of its leaves no-ops, has been compiled.
C19_Witness ==
    /\ Compiled
    /\ fields # << >>
    /\ AllLeavesNoOp(fields, filter.v)
    /\ Depth(filter.v) >= 2
    /\ LET nodes == Nodes(filter.v) IN
       /\ \E k \in 1 .. Len(nodes) : nodes[k].type = S_not /\ nodes[k].children # << >>
       /\ \E k \in 1 .. Len(nodes) :
              /\ IsLeaf(nodes[k])
              /\ nodes[k].left \in 0 .. Len(fields) - 1
    /\ cond.v.sql = << >>

\* The number of ? in a text.
CountPlaceholders(sql) == Cardinality({i \in 1 .. Len(sql) : sql[i] = PLACEHOLDER})

\* What a leaf binds: the literal coerced to the type of its field under a
\* comparison, the pattern made of the coerced literal under the operations
\* of LIKE, nothing under null and under a no-op.
LeafValue(features, node) ==
    LET value == turnInto(node.right, features[node.left + 1].type)
        text == replaceWildcards(StringOf(value))
    IN IF NoOpLeaf(features, node) \/ node.operation = S_null THEN << >>
       ELSE IF node.operation \in {O_cn, O_cni} THEN << Str(PERCENT \o text \o PERCENT) >>
       ELSE IF node.operation \in {O_sw, O_swi} THEN << Str(text \o PERCENT) >>
       ELSE IF node.operation \in {O_ew, O_ewi} THEN << Str(PERCENT \o text) >>
       ELSE << value >>

\* The values of the binding leaves of a tree, from left to right.
BoundValues(features, tree) ==
    LET nodes == Nodes(tree)
        RECURSIVE From(_)
        From(k) == IF k > Len(nodes) THEN << >>
                   ELSE (IF IsLeaf(nodes[k]) THEN LeafValue(features, nodes[k]) ELSE << >>)
                        \o From(k + 1)
    IN From(1)

\* C20. Parameter alignment: for every field list and every sanitized tree,
\* the sql of the compiled condition has as many ? as params has elements,
\* and the k-th element of params is the value of the k-th binding leaf of
\* the tree, from left to right.
C20_ParameterAlignment ==
    Compiled =>
        /\ CountPlaceholders(cond.v.sql) = Len(cond.v.params)
        /\ cond.v.params = BoundValues(fields, filter.v)

\* ------------------------------------------------------ claims on the patterns

\* The literal occurs in the value character for character: anywhere under
\* cn, at the start under sw, at the end under ew.
Occurs(operation, literal, value) ==
    LET n == Len(literal)
        At(k) == k + n - 1 <= Len(value) /\ SubSeq(value, k, k + n - 1) = literal
    IN CASE operation = O_cn -> \E k \in 1 .. Len(value) + 1 : At(k)
         [] operation = O_sw -> At(1)
         [] operation = O_ew -> n <= Len(value) /\ At(Len(value) - n + 1)

\* C21. Wildcard escaping: for every literal over an alphabet with %, _ and
\* the backslash, the pattern built for cn, sw and ew matches a value exactly
\* where the literal occurs in it character for character (as substring,
\* prefix or suffix), and no character of the literal acts as a wildcard.
C21_WildcardEscaping ==
    call.t = "like" /\ result.t = "return" =>
        /\ ~result.v.failed
        /\ result.v.matched <=> Occurs(call.v.operation, call.v.literal, call.v.value)

\* ------------------------------------------------------ claims on the coercion

\* C22. Coercion idempotence: for every field type T and every raw value x
\* (null, undefined, booleans, numbers, texts such as "0", "1", "true",
\* "false" and ""), turnInto(turnInto(x, T), T) is turnInto(x, T), and a
\* null or undefined x gives null for every T.
C22_CoercionIdempotent ==
    call.t = "coerce" /\ result.t = "return" =>
        /\ call.v.x.t \in {"null", "undefined"} => result.v.once = Null
        /\ result.v.twice.t # "none" => result.v.twice = result.v.once

\* A text has been coerced twice to a type that changes it: a logic field
\* made a boolean of it, a numeric field a number, a date field a date.
C22_Witness ==
    /\ call.t = "coerce"
    /\ result.t = "return"
    /\ call.v.x.t = "str"
    /\ call.v.type \in {"logic", "numeric", "date"}
    /\ result.v.once.t \in {"bool", "num", "date"}
    /\ result.v.twice = result.v.once

\* ------------------------------------------------------------ claims on query

\* The run of query can take no further step.
Ended == qpc \in {"done", "stuck"}

\* The field list the claim gives to onStart: the fields named by the valid
\* indices of the projection, in the order of the projection, or every field
\* when the projection is empty.
RECURSIVE NamedFields(_, _)
NamedFields(features, projection) ==
    IF projection = << >> THEN << >>
    ELSE (IF Head(projection) \in 0 .. Len(features) - 1
          THEN << features[Head(projection) + 1] >> ELSE << >>)
         \o NamedFields(features, Tail(projection))

SchemaOf(features, projection) ==
    IF projection = << >> THEN features ELSE NamedFields(features, projection)

\* C23, as stated. Schema before rows: in every run of query onStart is
\* called exactly once and before the first onRow, with the projected field
\* list or, for an empty projection, the full one.
C23_SchemaOnceInEveryRun ==
    Ended =>
        /\ Len(started) = 1
        /\ started[1] = SchemaOf(fields, call.v.projection)

\* C23, amended. In every run of query that obtained a connection onStart is
\* called exactly once, before the first onRow, with the projected field
\* list or, for an empty projection, the full one; a run whose connection
\* failed calls neither onStart nor onRow.
C23_SchemaBeforeRows ==
    /\ [](/\ Len(started) <= 1
          /\ cursor # "none" => Len(started) = 1
          /\ cursor = "none" => started = << >> /\ delivered = << >>
          /\ \A i \in 1 .. Len(started) : started[i] = SchemaOf(fields, call.v.projection))
    /\ [][delivered' # delivered => Len(started) = 1 /\ started' = started]_vars

\* A run with a projection of two fields in an order that is not the order
\* of the table has called onStart and then onRow for more rows than one
\* read returns.
C23_Witness ==
    /\ Len(started) = 1
    /\ Len(call.v.projection) = 2
    /\ call.v.projection[1] > call.v.projection[2]
    /\ Len(delivered) > CURSOR_READ_AMOUNT
    /\ qpc = "done"

\* C24. Connection release: on every path of query that obtained a
\* connection (end of the results, a read error, an exception thrown by
\* onStart or by onRow) the cursor is closed and the connection released in
\* the end: a run that can take no further step holds no connection.
C24_ConnectionReleased ==
    Ended => held = 0 /\ cursor # "open"

\* C25. Query failure is reported: when pool.connect fails or a cursor read
\* returns an error, the promise of query is rejected and never resolved.
C25_FailureRejects ==
    /\ (qpc = "done" /\ cursor = "none") => promise = "rejected"
    /\ (\E i \in 1 .. Len(reads) : reads[i] = READ_ERROR) => promise # "resolved"

\* C26. Streaming completeness: a query that resolves has called onRow
\* exactly once per row of the result set, in the order of the cursor; no
\* read returned more than 100 rows, and the read after which it resolved is
\* its first empty read.
C26_StreamingComplete ==
    /\ promise = "resolved" =>
           /\ delivered = [i \in 1 .. call.v.rows |-> i]
           /\ reads[Len(reads)] = 0
           /\ \A i \in 1 .. Len(reads) - 1 : reads[i] > 0
    /\ \A i \in 1 .. Len(reads) : reads[i] <= 100
    /\ promise # "resolved" => \A i \in 1 .. Len(reads) : reads[i] # 0

\* ------------------------------------------------- claims on dropped messages

\* C27. Malformed pub/sub message is dropped: an MQTT message whose payload
\* is not valid JSON, or whose topic is the topic of no source, changes
\* nothing: no row is persisted, no instance is enqueued, no worker is woken,
\* and nothing takes the message up again.
C27_MalformedDropped ==
    /\ [][\A r \in Requests, topic \in Topics \cup {"mq/other"}, validJson \in BOOLEAN :
              (MqttMessage(r, topic, validJson) /\ (~validJson \/ getTableFromTopic(topic) = 0)) =>
                  /\ reqs'[r].st = "dropped"
                  /\ UNCHANGED << updateQueue, requiredUpdate, updateSem, wpc, instancesToPush,
                                  outstanding, lastSent, firstSent, persisted, appended, forwarded,
                                  noticePending >>]_vars
    /\ [][\A r \in Requests : reqs[r].st = "dropped" => reqs'[r] = reqs[r]]_vars

\* A message has been dropped while an instance of another request is in
\* the queue of its source, and the run has gone on to forward it.
C27_Witness ==
    /\ \E r \in Requests : reqs[r].st = "dropped"
    /\ \E s \in Sources : forwarded[s] # << >>

\* ---------------------------------------------------- claims on the instances

\* C28. Instance shape: for a list, sanitizeInstances returns one instance
\* per element, each with one value per configured field in the order of
\* the field indices; keys that name no field are ignored, a missing key
\* gives null, and no element (null, a number, a text, a nested list) makes
\* the call throw; a value that is no list gives the empty list.
C28_InstanceShape ==
    call.t = "instances" /\ result.t # "none" =>
        /\ result.t = "return"
        /\ call.v.body.t # "arr" => result.v = << >>
        /\ call.v.body.t = "arr" =>
               /\ Len(result.v) = Len(call.v.body.v)
               /\ \A n \in 1 .. Len(result.v) :
                      /\ Len(result.v[n]) = Len(fields)
                      /\ \A k \in 1 .. Len(fields) :
                             result.v[n][k] =
                                 turnInto(Lookup(call.v.body.v[n], fields[k].name), fields[k].type)

\* ------------------------------------------------------ claims on the count

\* C29. End-to-end scenario: after a successful push, countInstances
\* returns the number of pushed rows that satisfy the condition of the
\* filter: with fields a (numeric) and b (nominal) and the instance a = 5,
\* b = x pushed, 1 for the filter a eq "5" and 0 for the filter a eq "6".
C29_ScenarioCount ==
    call.t = "scenario" /\ reqs[Pusher].st = "ok" /\ filter.t = "return" /\ result # NotRun =>
        result = Returned(Cardinality(Satisfying(fields,
                                                 { << Pusher, k >> : k \in 1 .. Len(call.v.body.v) },
                                                 filter.v)))

\* --------------------------------------------- claims on the nominal values

\* The feature index of the call names a field of the table and the field is
\* nominal.
NamesNominal ==
    LET feature == FeatureIndex(call.v.feature)
    IN \E k \in 1 .. Len(fields) : fields[k].index = feature /\ fields[k].type = "nominal"

\* C30. Nominal values guard: when the feature index names no field, or a
\* field that is not nominal, getNominalValues returns the empty list and
\* no statement goes to the database; otherwise the statement it issues
\* ends with LIMIT 128, and the values returned are at most 128.
C30_NominalGuard ==
    call.t = "nominal" /\ filter.t = "return" =>
        IF NamesNominal
        THEN /\ cond.t = "return"
             /\ LimitOf(cond.v.sql) = 128
             /\ result.t = "return" => Len(result.v) <= 128
        ELSE /\ cond = NotRun
             /\ result = Returned(<< >>)

\* The guard has stopped a call whose feature index names a field that is
\* not nominal: the handler has the empty list and no statement was issued.
C30_Witness ==
    /\ call.t = "nominal"
    /\ filter.t = "return"
    /\ FeatureIndex(call.v.feature) \in 0 .. Len(fields) - 1
    /\ ~NamesNominal
    /\ cond = NotRun
    /\ result = Returned(<< >>)

\* ------------------------------------------- claims on the worker and wakes

\* C31. Idle worker does nothing: a worker waiting in acquire() starts a
\* forward call only with a permit and with the queue non-empty or
\* requiredUpdate true at the moment it wakes (any other forward call is the
\* retry of a cycle so started); a permit consumed with an empty queue and
\* requiredUpdate false starts no forward call and leaves the worker in
\* acquire(); a worker waiting without a permit starts no call.
C31_IdleWorker ==
    /\ [][\A s \in Sources :
              outstanding'[s] > outstanding[s] =>
                  \/ wpc[s] = "backoff"
                  \/ /\ wpc[s] = "acquire"
                     /\ updateSem[s] >= 1
                     /\ requiredUpdate[s] \/ Len(updateQueue[s]) > 0]_vars
    /\ [][\A s \in Sources :
              (/\ wpc[s] = "acquire"
               /\ updateSem'[s] < updateSem[s]
               /\ ~requiredUpdate[s]
               /\ Len(updateQueue[s]) = 0) =>
                  /\ outstanding'[s] = outstanding[s]
                  /\ wpc'[s] = "acquire"
                  /\ updateSem'[s] = updateSem[s] - 1
                  /\ forwarded'[s] = forwarded[s]]_vars
    /\ [][\A s \in Sources :
              wpc[s] = "acquire" /\ updateSem[s] = 0 =>
                  outstanding'[s] = outstanding[s] /\ wpc'[s] = "acquire"]_vars

\* A worker wakes with nothing to do after a cycle that forwarded instances:
\* it is in acquire(), a permit is stored, the flag is false and the queue
\* is empty.
C31_Witness ==
    \E s \in Sources :
        /\ wpc[s] = "acquire"
        /\ updateSem[s] >= 1
        /\ ~requiredUpdate[s]
        /\ Len(updateQueue[s]) = 0
        /\ forwarded[s] # << >>

\* C32. NoticeUpdate frame: a step in which noticeUpdate runs for a source
\* (the only code that releases a permit) sets requiredUpdate of that source
\* and adds exactly one permit; the flags and permits of the other sources,
\* the worker's position, the batch in flight and the forward calls are
\* unchanged; the instances already queued keep their place in the queue,
\* and the queue and the relations are unchanged altogether unless the step
\* is the callback of the last INSERT of a push, which enqueues its instance
\* before noticeUpdate runs.
C32_NoticeFrame ==
    /\ [][notices' # notices => \E s \in Sources : updateSem'[s] > updateSem[s]]_vars
    /\ [][\A s \in Sources :
           updateSem'[s] > updateSem[s] =>
                  /\ requiredUpdate'[s]
                  /\ updateSem'[s] = updateSem[s] + 1
                  /\ \A u \in Sources \ {s} :
                         /\ requiredUpdate'[u] = requiredUpdate[u]
                         /\ updateSem'[u] = updateSem[u]
                         /\ updateQueue'[u] = updateQueue[u]
                  /\ UNCHANGED << wpc, instancesToPush, outstanding, lastSent, firstSent, forwarded >>
                  /\ Len(updateQueue'[s]) >= Len(updateQueue[s])
                  /\ SubSeq(updateQueue'[s], 1, Len(updateQueue[s])) = updateQueue[s]
                  /\ \/ UNCHANGED << updateQueue, persisted >>
                     \/ \E r \in Requests : reqs[r].st = "insert" /\ reqs'[r].st = "ok"]_vars

\* A notice has arrived while a batch is in flight and instances wait in
\* the queue: the flag is set and the permit is stored.
C32_Witness ==
    \E s \in Sources :
        /\ notices = 1
        /\ noticePending[s]
        /\ requiredUpdate[s]
        /\ updateSem[s] >= 1
        /\ wpc[s] = "sending"
        /\ Len(updateQueue[s]) > 0
        /\ lastSent[s] # << >>

\* C33. Push is decoupled from forwarding: a pushInstances call that waits
\* for an INSERT can go on whatever its worker is doing (both answers of
\* the database are possible in every such state, in acquire(), while
\* forwarding and in the backoff), its step does not touch the worker, and
\* it ends, with success or failure, as soon as the database has answered,
\* with no assumption on the worker or on the platform.
C33_PushDecoupled ==
    /\ [](\A r \in Requests : reqs[r].st = "insert" => ENABLED InsertOk(r) /\ ENABLED InsertFail(r))
    /\ [][\A r \in Requests :
              reqs[r].st = "insert" /\ reqs'[r] # reqs[r] =>
                  /\ UNCHANGED << wpc, instancesToPush, outstanding, lastSent, firstSent, forwarded >>
                  /\ reqs'[r].st \in {"insert", "ok"} =>
                         updateQueue'[reqs[r].src] =
                             Append(updateQueue[reqs[r].src], << r, reqs[r].idx >>)]_vars
    /\ \A r \in Requests : (reqs[r].st = "insert") ~> (reqs[r].st \in {"ok", "fail"})

\* A push has ended with success while the worker of its source is in the
\* backoff of a cycle that has already failed more than once, and its last
\* instance waits in the queue.
C33_Witness ==
    \E r \in Requests :
        /\ reqs[r].st = "ok"
        /\ reqs[r].n >= 1
        /\ wpc[reqs[r].src] = "backoff"
        /\ retried[reqs[r].src]
        /\ << r, reqs[r].n >> \in Range(updateQueue[reqs[r].src])

\* C34. Acknowledged push implies wake: when the HTTP push handler has
\* answered 200, every instance of the request is a row of the table of the
\* source and is queued, in flight or forwarded; the step that answers 200
\* sets requiredUpdate and releases one permit, after the last instance was
\* enqueued; the step in which a write fails releases no permit.
C34_AckImpliesWake ==
    /\ [](\A r \in Requests :
              reqs[r].kind = "http" /\ reqs[r].st = "ok" =>
                  \A k \in 1 .. reqs[r].n :
                      /\ << r, k >> \in persisted[SourceRelation(reqs[r].src)]
                      /\ << r, k >> \in Range(forwarded[reqs[r].src] \o instancesToPush[reqs[r].src]
                                                \o updateQueue[reqs[r].src]))
    /\ [][\A r \in Requests :
              reqs[r].st # "ok" /\ reqs'[r].st = "ok" /\ reqs'[r].kind = "http" =>
                  LET s == reqs'[r].src IN
                  /\ requiredUpdate'[s]
                  /\ updateSem'[s] = updateSem[s] + 1
                  /\ \A k \in 1 .. reqs'[r].n : << r, k >> \in Range(appended'[s])]_vars
    /\ [][\A r \in Requests :
              reqs[r].st # "fail" /\ reqs'[r].st = "fail" =>
                  UNCHANGED << updateSem, requiredUpdate >>]_vars

\* C35. requiredUpdate is cleared only at the start of a cycle: the flag
\* goes from true to false only in the step in which the worker leaves
\* acquire(), drains the queue and issues the first forward call; no step
\* of a cycle under way clears it, so a flag set during the forward or the
\* backoff is still set when the batch is acknowledged; and with the
\* continuations run and the platform eventually answering 200 the flag
\* does not stay true for ever.
C35_ClearedAtCycleStart ==
    /\ [][\A s \in Sources :
              requiredUpdate[s] /\ ~requiredUpdate'[s] =>
                  /\ wpc[s] = "acquire"
                  /\ wpc'[s] = "sending"
                  /\ updateSem'[s] = updateSem[s] - 1
                  /\ outstanding'[s] = outstanding[s] + 1
                  /\ instancesToPush'[s] \o updateQueue'[s] = updateQueue[s]]_vars
    /\ [][\A s \in Sources :
              wpc[s] \in {"sending", "backoff"} /\ requiredUpdate[s] => requiredUpdate'[s]]_vars
    /\ \A s \in Sources : requiredUpdate[s] ~> ~requiredUpdate[s]

\* A batch has been acknowledged and the flag is true by the noticeUpdate
\* of a push that ended while that batch was being forwarded: the only
\* noticeUpdate of the source besides the one that started the cycle.
C35_Witness ==
    \E s \in Sources, r \in Requests :
        /\ wpc[s] = "acquire"
        /\ requiredUpdate[s]
        /\ updateSem[s] = 1
        /\ forwarded[s] # << >>
        /\ notices = 0
        /\ reqs[r].st = "ok" /\ reqs[r].kind = "http" /\ reqs[r].src = s /\ reqs[r].awake
        /\ \A q \in Requests \ {r} : reqs[q].st = "ok" /\ reqs[q].kind = "http" /\ reqs[q].src = s

\* ------------------------------------------- claims on the statement of query

\* The piece occurs in the text.
Contains(text, piece) ==
    \E k \in 1 .. Len(text) - Len(piece) + 1 : SubSeq(text, k, k + Len(piece) - 1) = piece

\* The text ends with the piece.
EndsWith(text, piece) ==
    Len(piece) <= Len(text) /\ SubSeq(text, Len(text) - Len(piece) + 1, Len(text)) = piece

\* The text between SELECT and the first FROM.
ProjectionClause(sql) ==
    LET k == CHOOSE i \in 1 .. Len(sql) :
                 /\ SubSeq(sql, i, i + Len(SQL_from_table) - 1) = SQL_from_table
                 /\ \A j \in 1 .. i - 1 : SubSeq(sql, j, j + Len(SQL_from_table) - 1) # SQL_from_table
    IN SubSeq(sql, Len(SQL_select) + 1, k - 1)

\* The lists of one to three indices of configured fields.
IndexLists(features) == UNION { [1 .. n -> 0 .. Len(features) - 1] : n \in 1 .. 3 }

\* C37. Query clauses: the statement of query has an ORDER BY clause
\* exactly when order is the index of a field, on that field, DESC when dir
\* is "desc" and ASC otherwise; a LIMIT clause exactly when limit is
\* positive and an OFFSET clause exactly when skip is positive, with these
\* numbers; and its projection is * or a non-empty list of names of
\* configured fields.
C37_QueryClauses ==
    call.t = "clauses" /\ cond.t = "return" =>
        LET sql == cond.v.sql
            order == OrderIndex(call.v.order)
            inRange == order >= 0 /\ order < Len(fields)
            limit == parseIntOrZero(StringOf(call.v.limit))
            skip == parseIntOrZero(StringOf(call.v.skip))
            by == SQL_order_by \o fields[order + 1].name \o SQL_quote_space
        IN /\ Contains(sql, SQL_order_by) <=> inRange
           /\ inRange /\ call.v.dir = Str(S_desc) => Contains(sql, by \o SQL_desc)
           /\ inRange /\ call.v.dir # Str(S_desc) => Contains(sql, by \o SQL_asc)
           /\ Contains(sql, SQL_limit) <=> limit > 0
           /\ limit > 0 => Contains(sql, SQL_limit \o Digits(limit))
           /\ Contains(sql, SQL_offset) <=> skip > 0
           /\ skip > 0 => EndsWith(sql, SQL_offset \o Digits(skip))
           /\ \/ ProjectionClause(sql) = SQL_star
              \/ \E indices \in IndexLists(fields) : ProjectionClause(sql) = JoinNames(fields, indices)

\* A statement with every clause: two fields projected out of the order of
\* the table, a condition, ORDER BY DESC, LIMIT and OFFSET.
C37_Witness ==
    /\ call.t = "clauses"
    /\ cond.t = "return"
    /\ Len(fields) = 2
    /\ ProjectionClause(cond.v.sql) = JoinNames(fields, << 1, 0 >>)
    /\ Contains(cond.v.sql, SQL_where)
    /\ Contains(cond.v.sql, SQL_order_by \o fields[2].name \o SQL_quote_space \o SQL_desc)
    /\ Contains(cond.v.sql, SQL_limit \o Digits(12))
    /\ EndsWith(cond.v.sql, SQL_offset \o Digits(12))

\* ------------------------------------- claims on the form of the placeholders

\* The parameter $i of a statement.
Parameter(i) == << DOLLAR >> \o Digits(i)

\* Where the piece first occurs in the text, 0 when it does not.
FirstAt(text, piece) ==
    IF Contains(text, piece)
    THEN CHOOSE k \in 1 .. Len(text) :
             /\ SubSeq(text, k, k + Len(piece) - 1) = piece
             /\ \A j \in 1 .. k - 1 : SubSeq(text, j, j + Len(piece) - 1) # piece
    ELSE 0

\* C36. Placeholder form: a statement handed to the database with k values,
\* k > 0, has no ? placeholder left and has the parameters $1 to $k, in
\* this order from left to right.
C36_PlaceholderForm ==
    call.t = "statement" /\ cond.t = "return" /\ cond.v.params # << >> =>
        /\ UnquotedPlaceholders(cond.v.sql) = 0
        /\ \A i \in 1 .. Len(cond.v.params) : Contains(cond.v.sql, Parameter(i))
        /\ \A i \in 1 .. Len(cond.v.params) - 1 :
               FirstAt(cond.v.sql, Parameter(i)) < FirstAt(cond.v.sql, Parameter(i + 1))

\* -------------------------------------------------- claims on the CrashGuard

\* The delay between two runs: the one given, 5000 when none is given.
ExpectedDelay == IF guard.arg > 0 THEN guard.arg ELSE 5000

\* C38. runUntilSuccess runs fn one run at a time; a run that throws or
\* whose promise rejects arms the timer with the delay and the next run
\* starts only when it fires; the promise it returns resolves exactly once,
\* by the first run of fn that succeeds and not before, after which fn is
\* not run again; and it never rejects.
C38_RunUntilSuccess ==
    /\ [](/\ guard.active <= 1
          /\ guard.resolves <= 1
          /\ guard.promise # "rejected"
          /\ guard.promise = "resolved" <=>
                 (guard.outcomes # << >> /\ guard.outcomes[Len(guard.outcomes)] = "resolve")
          /\ guard.promise = "resolved" <=> guard.resolves = 1
          /\ \A i \in 1 .. Len(guard.outcomes) - 1 : guard.outcomes[i] # "resolve"
          /\ guard.promise = "resolved" => guard.active = 0 /\ guard.armed = 0)
    /\ [][(/\ Len(guard'.outcomes) > Len(guard.outcomes)
           /\ guard'.outcomes[Len(guard'.outcomes)] # "resolve") =>
              /\ guard'.pc = "timer"
              /\ guard'.armed = ExpectedDelay'
              /\ guard'.active = 0
              /\ guard'.promise = "pending"]_vars
    /\ [][(guard.pc # "idle" /\ guard.pc # guard'.pc /\ guard'.pc \in {"run", "timer"}) =>
              \/ guard.pc = "timer" /\ guard.armed = ExpectedDelay
              \/ guard.pc = "run" /\ guard'.pc = "timer"]_vars

\* The promise has resolved by the third run, after a run that threw and a
\* run whose promise rejected, with no delay given.
C38_Witness ==
    /\ guard.promise = "resolved"
    /\ guard.arg = 0
    /\ guard.outcomes = << "throw", "reject", "resolve" >>

====
